---- MODULE Spec2Model ----
(***************************************************************************)
(* CHIP-8 interpreter core (chip8-system): memory, instruction decoder,    *)
(* the fetch/decode/execute loop of System::run and the pieces of the      *)
(* keyboard, timers and stop pin the loop touches.                         *)
(*                                                                         *)
(* Representation notes.                                                   *)
(*  - memory is the 4096-byte array of Memory; the state stores only its   *)
(*    nonzero bytes (a function from addresses to 1..255) and MemByte      *)
(*    reads 0 everywhere else.                                             *)
(*  - pixels is the 2048-bit BitVec of DisplayBuffer, stored as the set of *)
(*    indices whose bit is 1.                                              *)
(*  - u8 / u16 arithmetic is written modulo 256 / 65536 where the code     *)
(*    wraps; a Rust panic is the outcome "Panic".                          *)
(***************************************************************************)
EXTENDS Integers, Sequences, FiniteSets, TLC

VARIABLES
    pc,           \* Cpu.pc : u16
    v,            \* Cpu.v  : [u8; 16]
    i,            \* Cpu.i  : u16
    stack,        \* Cpu.stack : Vec<u16>
    memory,       \* System.memory (nonzero bytes only)
    pixels,       \* System.display.pixels (indices of lit pixels)
    quirks,       \* System.options.quirks
    delay_timer,  \* System.delay_timer.value
    sound_timer,  \* System.sound_timer.value
    key_states,   \* Keyboard.key_states
    waiting,      \* Keyboard.wait_for_key
    wait_chan,    \* Keyboard.wait_sender / wait_receiver, bounded(1)
    stop_waiter,  \* Keyboard.stop_waiter_sender / receiver, bounded(1)
    stop,         \* System.stop : ControlPin
    cpu_at,       \* position of the interpreter thread inside run
    result,       \* what run has returned so far
    steps,        \* number of execute_next_inst calls made by run
    last_instr,   \* history: the instruction decoded by the last call
    callsite,     \* history: for each stack entry, where its CALL ran
    host_at,      \* position of the host thread inside SystemController::stop
    rom,          \* the image given to load_image_bytes
    stops_left,   \* environment: remaining SystemController::stop calls
    keys_left,    \* environment: remaining key events
    key_msgs,     \* Keyboard.sender / receiver: the input channel, bounded(128)
    kb_at,        \* position of a caller inside wait_for_key_press
    kb_ret,       \* what the last wait_for_key_press returned
    kb_seen,      \* history: Down messages handled since the last register
    kb_calls,     \* history: wait_for_key_press calls begun
    kb_posts,     \* history: messages posted to the input channel
    kb_stops,     \* history: KeyboardController::stop calls made directly
    kb_ups,       \* history: keys whose Up was handled since the last try_send
    kb_last,      \* history: the state in the last message posted for each key
    t_value,      \* CountDownTimer.value : AtomicU8
    t_token,      \* the park token of the ticker thread
    t_stop,       \* CountDownTimer.stop : ControlPin
    t_chan,       \* CountDownTimer.sender / receiver, bounded(1)
    t_at,         \* position of the ticker thread
    t_loaded,     \* the value fetch_update last read
    t_cl,         \* position of the thread owning the timer
    t_upds,       \* history: update calls made
    t_spur,       \* history: park calls that returned without a token
    t_from_zero,  \* history: the last update's store found the value 0
    t_written,    \* history: the value stored by the last update
    t_started,    \* history: Started events put on the channel
    t_stopped,    \* history: Stopped events put on the channel
    t_zeros,      \* history: times the value went from nonzero to 0
    t_at_drop,    \* history: where the ticker was when drop began
    t_last,       \* history: the last event a reader of output() received
    t_stored,     \* history: the value of the last store into value
    t_decs,       \* history: decrements applied since the last store
    p_front,      \* Terminal key channel (ks / kr)
    p_at,         \* position of the PortAdapter thread inside run
    p_msg,        \* the message run holds between recv and try_send
    p_source,     \* whether a Sender of the Terminal key channel is left
    p_target,     \* whether the Receiver of the keyboard input channel is left
    p_events,     \* history: key events the front end produced
    p_last,       \* history: the last key event the front end produced
    d_at,         \* position of a decode / encode run
    d_word,       \* the u16 given to parse_opcode
    d_op,         \* the Opcode given to the generator
    d_instr,      \* what parse_opcode returned
    d_code,       \* the u16 the generator emitted
    g_at,         \* position of a generate call
    g_lines,      \* generate: lines
    g_k,          \* index of the line the running for loop is at
    g_addr,       \* labels: addr
    g_labels,     \* labels: the HashMap built by the first pass
    g_out,        \* generate: the bytes written to w
    g_err,        \* the error generate returned
    a_at,         \* position of c8asm's main
    a_text,       \* the source text parse_file read
    lk_rw,        \* holder of the key_states RwLock
    lk_mx,        \* holder of the wait_for_key Mutex
    lk_wk,        \* position of the keyboard worker thread
    lk_msg,       \* the message the worker received
    lk_in,        \* position of the interpreter thread inside Keyboard
    lk_key,       \* the key is_key_down was asked about
    lk_ret,       \* what the last Keyboard call returned
    lk_keys,      \* key_states, as the two threads see it
    lk_waiting,   \* wait_for_key, as the two threads see it
    lk_chan,      \* wait_sender / wait_receiver, bounded(1)
    lk_stop,      \* stop_waiter_sender / stop_waiter_receiver, bounded(1)
    lk_msgs,      \* the input port's channel
    lk_posts,     \* messages sent so far
    lk_calls,     \* Keyboard calls made so far
    lk_stops      \* KeyboardController::stop calls made so far

vars == <<pc, v, i, stack, memory, pixels, quirks, delay_timer, sound_timer,
          key_states, waiting, wait_chan, stop_waiter, stop, cpu_at, result,
          steps, last_instr, callsite, host_at, rom, stops_left, keys_left,
          key_msgs, kb_at, kb_ret, kb_seen, kb_calls, kb_posts, kb_stops,
          kb_ups, kb_last,
          t_value, t_token, t_stop, t_chan, t_at, t_loaded, t_cl, t_upds,
          t_spur, t_from_zero, t_written, t_started, t_stopped, t_zeros,
          t_at_drop, t_last, t_stored, t_decs,
          p_front, p_at, p_msg, p_source, p_target, p_events, p_last,
          d_at, d_word, d_op, d_instr, d_code,
          g_at, g_lines, g_k, g_addr, g_labels, g_out, g_err,
          a_at, a_text,
          lk_rw, lk_mx, lk_wk, lk_msg, lk_in, lk_key, lk_ret, lk_keys,
          lk_waiting, lk_chan, lk_stop, lk_msgs, lk_posts, lk_calls, lk_stops>>

\* the variables only a direct user of the Keyboard moves
kbvars == <<key_msgs, kb_at, kb_ret, kb_seen, kb_calls, kb_posts, kb_stops,
            kb_ups, kb_last>>

\* the variables only a direct user of a CountDownTimer moves
tmvars == <<t_value, t_token, t_stop, t_chan, t_at, t_loaded, t_cl, t_upds,
            t_spur, t_from_zero, t_written, t_started, t_stopped, t_zeros,
            t_at_drop, t_last, t_stored, t_decs>>

\* the variables only the edge from the front end to the keyboard moves
ptvars == <<p_front, p_at, p_msg, p_source, p_target, p_events, p_last>>

\* the variables of a decode / encode run
dcvars == <<d_at, d_word, d_op, d_instr, d_code>>

\* the variables of a generate call
gnvars == <<g_at, g_lines, g_k, g_addr, g_labels, g_out, g_err>>

\* the variables of a run of c8asm's main around its generate call
asvars == <<a_at, a_text>>

\* the variables of the two threads that share one Keyboard, lock by lock
lkvars == <<lk_rw, lk_mx, lk_wk, lk_msg, lk_in, lk_key, lk_ret, lk_keys,
            lk_waiting, lk_chan, lk_stop, lk_msgs, lk_posts, lk_calls, lk_stops>>

\* the variables no interpreter, keyboard, timer or port action moves
restvars == <<dcvars, gnvars, asvars, lkvars>>

\* Terminal::new_with_options and connect: empty channel, adapter started
PortNew ==
    /\ p_front = <<>>
    /\ p_at = "recv"
    /\ p_msg = <<>>
    /\ p_source = "alive"
    /\ p_target = "alive"
    /\ p_events = 0
    /\ p_last = <<>>

\* CountDownTimer::new: value 0, stop pin low, empty channel, ticker spawned
TimerNew ==
    /\ t_value = 0
    /\ t_token = FALSE
    /\ t_stop = FALSE
    /\ t_chan = <<>>
    /\ t_at = "park"
    /\ t_loaded = 0
    /\ t_cl = "idle"
    /\ t_upds = 0
    /\ t_spur = 0
    /\ t_from_zero = FALSE
    /\ t_written = 0
    /\ t_started = 0
    /\ t_stopped = 0
    /\ t_zeros = 0
    /\ t_at_drop = "none"
    /\ t_last = "None"
    /\ t_stored = 0
    /\ t_decs = 0

-----------------------------------------------------------------------------
(* Program constants *)

MEMORY_SIZE == 4096
RESERVED_SIZE == 512
STACK_SIZE == 16
DISPLAY_WIDTH == 64
DISPLAY_HEIGHT == 32
FONT_SPRITES_ADDRESS == 0
VF == 15

LOAD_STORE_IGNORES_I == "LOAD_STORE_IGNORES_I"
SHIFT_READS_VX == "SHIFT_READS_VX"
DRAW_WRAPS_PIXELS == "DRAW_WRAPS_PIXELS"
Quirks == {LOAD_STORE_IGNORES_I, SHIFT_READS_VX, DRAW_WRAPS_PIXELS}

SystemError == {"UnknownInstruction", "MemoryReadOverflow", "StackUnderflow",
                "StackOverflow", "SelfJump", "Interrupted"}

(* Bounds of the model *)
MaxSteps == 20     \* execute_next_inst calls explored per run
MaxStops == 1      \* SystemController::stop calls made by the host
MaxKeyEvents == 1  \* key events processed by the keyboard worker

-----------------------------------------------------------------------------
(* Bytes and bits *)

U8 == 256
U16 == 65536

Bit(b, k) == (b \div (2 ^ k)) % 2

BitwiseOr(a, b) == LET f(k) == IF Bit(a, k) = 1 \/ Bit(b, k) = 1 THEN 2 ^ k ELSE 0
                   IN f(0) + f(1) + f(2) + f(3) + f(4) + f(5) + f(6) + f(7)

BitwiseAnd(a, b) == LET f(k) == IF Bit(a, k) = 1 /\ Bit(b, k) = 1 THEN 2 ^ k ELSE 0
                    IN f(0) + f(1) + f(2) + f(3) + f(4) + f(5) + f(6) + f(7)

BitwiseXor(a, b) == LET f(k) == IF Bit(a, k) # Bit(b, k) THEN 2 ^ k ELSE 0
                    IN f(0) + f(1) + f(2) + f(3) + f(4) + f(5) + f(6) + f(7)

-----------------------------------------------------------------------------
(* Memory (memory.rs) *)

MemByte(m, a) == IF a \in DOMAIN m THEN m[a] ELSE 0

\* read_u16 with the range check off by one: the word may start at the last byte
read_u16_LastByte(m, addr) ==
    IF addr < MEMORY_SIZE
    THEN MemByte(m, addr) * 256 + MemByte(m, addr + 1)
    ELSE -1

\* bytes.get(addr..=addr + 1): None unless both bytes are inside the array
read_u16(m, addr) ==
    IF addr + 1 < MEMORY_SIZE
    THEN MemByte(m, addr) * 256 + MemByte(m, addr + 1)
    ELSE -1

\* bytes.get(addr..addr + n): the view, or None (here <<-1>>) when the range
\* ends past the array
read_slice(m, addr, n) ==
    IF addr + n <= MEMORY_SIZE
    THEN [k \in 1..n |-> MemByte(m, addr + k - 1)]
    ELSE <<-1>>

SliceFits(addr, n) == addr + n <= MEMORY_SIZE

\* bytes[addr..addr + data.len()].copy_from_slice(data); the caller checks
\* SliceFits first, since the index expression panics otherwise
write_slice(m, addr, data) ==
    LET written == addr..(addr + Len(data) - 1)
        byte(a) == IF a \in written THEN data[a - addr + 1] ELSE MemByte(m, a)
        keep == {a \in (DOMAIN m) \cup written : byte(a) # 0}
    IN [a \in keep |-> byte(a)]

-----------------------------------------------------------------------------
(* Instruction decoder (opcode.rs).  An Instr is a record: op is the variant *)
(* name, and the operands a variant does not carry are 0.                   *)

Instr(op, x, y, n, kk, nnn) ==
    [op |-> op, x |-> x, y |-> y, n |-> n, kk |-> kk, nnn |-> nnn]

None == Instr("None", 0, 0, 0, 0, 0)

nnn_of(opcode) == opcode % 4096
\* x read from bits 7..4
x_of_Bits74(opcode) == (opcode \div 16) % 16

x_of(opcode) == (opcode \div 256) % 16
y_of(opcode) == (opcode \div 16) % 16
kk_of(opcode) == opcode % 256
n_of(opcode) == opcode % 16

InstrAddr(op, o) == Instr(op, 0, 0, 0, 0, nnn_of(o))
InstrRegImm(op, o) == Instr(op, x_of(o), 0, 0, kk_of(o), 0)
InstrRegReg(op, o) == Instr(op, x_of(o), y_of(o), 0, 0, 0)
InstrReg(op, o) == Instr(op, x_of(o), 0, 0, 0, 0)

parse_opcode_8(opcode) ==
    LET lsn == opcode % 16 IN
    CASE lsn = 0 -> InstrRegReg("LoadReg", opcode)
      [] lsn = 1 -> InstrRegReg("OrReg", opcode)
      [] lsn = 2 -> InstrRegReg("AndReg", opcode)
      [] lsn = 3 -> InstrRegReg("XorReg", opcode)
      [] lsn = 4 -> InstrRegReg("AddReg", opcode)
      [] lsn = 5 -> InstrRegReg("SubReg", opcode)
      [] lsn = 6 -> InstrRegReg("ShiftRight", opcode)
      [] lsn = 7 -> InstrRegReg("SubN", opcode)
      [] lsn = 14 -> InstrRegReg("ShiftLeft", opcode)
      [] OTHER -> None

parse_opcode_e(opcode) ==
    LET lsb == opcode % 256 IN
    CASE lsb = 158 -> InstrReg("SkipKeyPressed", opcode)
      [] lsb = 161 -> InstrReg("SkipKeyNotPressed", opcode)
      [] OTHER -> None

parse_opcode_f(opcode) ==
    LET lsb == opcode % 256 IN
    CASE lsb = 7 -> InstrReg("LoadDelayTimer", opcode)
      [] lsb = 10 -> InstrReg("WaitKeyPress", opcode)
      [] lsb = 21 -> InstrReg("SetDelayTimer", opcode)
      [] lsb = 24 -> InstrReg("SetSoundTimer", opcode)
      [] lsb = 30 -> InstrReg("AddI", opcode)
      [] lsb = 41 -> InstrReg("LoadSprite", opcode)
      [] lsb = 51 -> InstrReg("LoadBCD", opcode)
      [] lsb = 85 -> InstrReg("SaveRegs", opcode)
      [] lsb = 101 -> InstrReg("LoadRegs", opcode)
      [] OTHER -> None

parse_opcode(opcode) ==
    LET msn == opcode \div 4096
        lsn == opcode % 16
    IN
    CASE opcode = 224 -> Instr("ClearDisplay", 0, 0, 0, 0, 0)
      [] opcode = 238 -> Instr("Return", 0, 0, 0, 0, 0)
      [] msn = 1 -> InstrAddr("Jump", opcode)
      [] msn = 2 -> InstrAddr("Call", opcode)
      [] msn = 3 -> InstrRegImm("SkipEqImm", opcode)
      [] msn = 4 -> InstrRegImm("SkipNotEqImm", opcode)
      [] msn = 5 /\ lsn = 0 -> InstrRegReg("SkipEqReg", opcode)
      [] msn = 6 -> InstrRegImm("LoadImm", opcode)
      [] msn = 7 -> InstrRegImm("AddImm", opcode)
      [] msn = 8 -> parse_opcode_8(opcode)
      [] msn = 9 /\ lsn = 0 -> InstrRegReg("SkipNotEqReg", opcode)
      [] msn = 10 -> InstrAddr("LoadI", opcode)
      [] msn = 11 -> InstrAddr("JumpV0", opcode)
      [] msn = 12 -> InstrRegImm("Random", opcode)
      [] msn = 13 -> Instr("Draw", x_of(opcode), y_of(opcode), n_of(opcode), 0, 0)
      [] msn = 14 -> parse_opcode_e(opcode)
      [] msn = 15 -> parse_opcode_f(opcode)
      [] OTHER -> None

-----------------------------------------------------------------------------
(* The assembler's code generator (c8asm: ast.rs, generator.rs).  An Opcode  *)
(* is a record: op is the variant name, and the operands a variant does not  *)
(* carry are 0 / NoAddr.  A Result<u16, String> is a record with ok, code    *)
(* and err.                                                                  *)

ORIGIN == 512

Imm(a) == [kind |-> "Imm", imm |-> a, label |-> ""]
LabelRef(s) == [kind |-> "LabelRef", imm |-> 0, label |-> s]
NoAddr == [kind |-> "None", imm |-> 0, label |-> ""]

Opcode(op, r1, r2, n, b, a) ==
    [op |-> op, r1 |-> r1, r2 |-> r2, n |-> n, b |-> b, a |-> a]

Ok(c) == [ok |-> TRUE, code |-> c, err |-> ""]
Err(e) == [ok |-> FALSE, code |-> 0, err |-> e]

RECURSIVE Or16From(_, _, _)
Or16From(a, b, k) ==
    IF k > 15 THEN 0
    ELSE (IF Bit(a, k) = 1 \/ Bit(b, k) = 1 THEN 2 ^ k ELSE 0) + Or16From(a, b, k + 1)

\* the | of two u16
Or16(a, b) == Or16From(a, b, 0)

\* addr with the label address taken without the & 0xFFF
addr_NoMask(c, a, labels) ==
    IF a.kind = "Imm" THEN Ok(Or16(c, a.imm % 4096))
    ELSE IF a.label \in DOMAIN labels THEN Ok(Or16(c, labels[a.label] % U16))
    ELSE Err("unknown label")

addr(c, a, labels) ==
    IF a.kind = "Imm" THEN Ok(Or16(c, a.imm % 4096))
    ELSE IF a.label \in DOMAIN labels THEN Ok(Or16(c, labels[a.label] % 4096))
    ELSE Err("unknown label")

reg_imm(c, r, b) == Or16(Or16(c, r * 256), b)

\* reg_reg with the two registers exchanged
reg_reg_Swapped(c, r1, r2) == Or16(Or16(c, r2 * 256), r1 * 16)

reg_reg(c, r1, r2) == Or16(Or16(c, r1 * 256), r2 * 16)

reg_reg_nib(c, r1, r2, n) == Or16(Or16(Or16(c, r1 * 256), r2 * 16), n % 16)

reg(c, r) == Or16(c, r * 256)

\* the match of opcode: the u16 code, or the error of addr
opcode(o, labels) ==
    CASE o.op = "ClearDisplay" -> Ok(\h00E0)
      [] o.op = "Return" -> Ok(\h00EE)
      [] o.op = "Jump" -> addr(\h1000, o.a, labels)
      [] o.op = "Call" -> addr(\h2000, o.a, labels)
      [] o.op = "SkipEqImm" -> Ok(reg_imm(\h3000, o.r1, o.b))
      [] o.op = "SkipNotEqImm" -> Ok(reg_imm(\h4000, o.r1, o.b))
      [] o.op = "SkipEqReg" -> Ok(reg_reg(\h5000, o.r1, o.r2))
      [] o.op = "LoadImm" -> Ok(reg_imm(\h6000, o.r1, o.b))
      [] o.op = "AddImm" -> Ok(reg_imm(\h7000, o.r1, o.b))
      [] o.op = "LoadReg" -> Ok(reg_reg(\h8000, o.r1, o.r2))
      [] o.op = "OrReg" -> Ok(reg_reg(\h8001, o.r1, o.r2))
      [] o.op = "AndReg" -> Ok(reg_reg(\h8002, o.r1, o.r2))
      [] o.op = "XorReg" -> Ok(reg_reg(\h8003, o.r1, o.r2))
      [] o.op = "AddReg" -> Ok(reg_reg(\h8004, o.r1, o.r2))
      [] o.op = "SubReg" -> Ok(reg_reg(\h8005, o.r1, o.r2))
      [] o.op = "ShiftRight" -> Ok(reg_reg(\h8006, o.r1, o.r2))
      [] o.op = "SubN" -> Ok(reg_reg(\h8007, o.r1, o.r2))
      [] o.op = "ShiftLeft" -> Ok(reg_reg(\h800E, o.r1, o.r2))
      [] o.op = "SkipNotEqReg" -> Ok(reg_reg(\h9000, o.r1, o.r2))
      [] o.op = "LoadI" -> addr(\hA000, o.a, labels)
      [] o.op = "JumpV0" -> addr(\hB000, o.a, labels)
      [] o.op = "Random" -> Ok(reg_imm(\hC000, o.r1, o.b))
      [] o.op = "Draw" -> Ok(reg_reg_nib(\hD000, o.r1, o.r2, o.n))
      [] o.op = "SkipKeyPressed" -> Ok(reg(\hE09E, o.r1))
      [] o.op = "SkipKeyNotPressed" -> Ok(reg(\hE0A1, o.r1))
      [] o.op = "LoadDelayTimer" -> Ok(reg(\hF007, o.r1))
      [] o.op = "WaitKeyPress" -> Ok(reg(\hF00A, o.r1))
      [] o.op = "SetDelayTimer" -> Ok(reg(\hF015, o.r1))
      [] o.op = "SetSoundTimer" -> Ok(reg(\hF018, o.r1))
      [] o.op = "AddI" -> Ok(reg(\hF01E, o.r1))
      [] o.op = "LoadSprite" -> Ok(reg(\hF029, o.r1))
      [] o.op = "LoadBCD" -> Ok(reg(\hF033, o.r1))
      [] o.op = "SaveRegs" -> Ok(reg(\hF055, o.r1))
      [] o.op = "LoadRegs" -> Ok(reg(\hF065, o.r1))

\* u16::to_be_bytes
to_be_bytes(code) == <<code \div 256, code % 256>>

\* no decode / encode run started
CodecIdle ==
    /\ d_at = "off"
    /\ d_word = 0
    /\ d_op = Opcode("ClearDisplay", 0, 0, 0, 0, NoAddr)
    /\ d_instr = None
    /\ d_code = 0

\* a Line: no label is "", and an instruction is an Opcode, Data or absent
Line(label, instr) == [label |-> label, instr |-> instr]
AsmNone == [kind |-> "None", op |-> Opcode("ClearDisplay", 0, 0, 0, 0, NoAddr), data |-> <<>>]
AsmOpcode(o) == [kind |-> "Opcode", op |-> o, data |-> <<>>]
AsmData(d) == [kind |-> "Data", op |-> Opcode("ClearDisplay", 0, 0, 0, 0, NoAddr), data |-> d]

\* Line::size and Instr::size
size(l) ==
    IF l.instr.kind = "Opcode" THEN 2
    ELSE IF l.instr.kind = "Data" THEN Len(l.instr.data)
    ELSE 0

NoLabels == [s \in {} |-> 0]

\* labels.insert(label, addr)
insert(labels, label, a) ==
    [s \in DOMAIN labels \cup {label} |-> IF s = label THEN a ELSE labels[s]]

\* no generate call started
GenIdle ==
    /\ g_at = "off"
    /\ g_lines = <<>>
    /\ g_k = 0
    /\ g_addr = 0
    /\ g_labels = NoLabels
    /\ g_out = <<>>
    /\ g_err = ""

\* c8asm not run
AsmIdle ==
    /\ a_at = "off"
    /\ a_text = <<>>

\* the state of every run that is not started
\* Keyboard::new seen lock by lock: both locks free, every key up, nobody
\* waiting, empty channels, the worker at its select!
NoMsg == [state |-> "None", key |-> 0]
LockIdle ==
    /\ lk_rw = "free"
    /\ lk_mx = "free"
    /\ lk_wk = "select"
    /\ lk_msg = NoMsg
    /\ lk_in = "idle"
    /\ lk_key = 0
    /\ lk_ret = "None"
    /\ lk_keys = [k \in 0..15 |-> "Up"]
    /\ lk_waiting = FALSE
    /\ lk_chan = <<>>
    /\ lk_stop = 0
    /\ lk_msgs = <<>>
    /\ lk_posts = 0
    /\ lk_calls = 0
    /\ lk_stops = 0

RestIdle == CodecIdle /\ GenIdle /\ AsmIdle /\ LockIdle

-----------------------------------------------------------------------------
(* Display (display.rs) *)

font_sprites ==
    << \hF0, \h90, \h90, \h90, \hF0,   \h20, \h60, \h20, \h20, \h70,
       \hF0, \h10, \hF0, \h80, \hF0,   \hF0, \h10, \hF0, \h10, \hF0,
       \h90, \h90, \hF0, \h10, \h10,   \hF0, \h80, \hF0, \h10, \hF0,
       \hF0, \h80, \hF0, \h90, \hF0,   \hF0, \h10, \h20, \h40, \h40,
       \hF0, \h90, \hF0, \h90, \hF0,   \hF0, \h90, \hF0, \h10, \hF0,
       \hF0, \h90, \hF0, \h90, \h90,   \hE0, \h90, \hE0, \h90, \hE0,
       \hF0, \h80, \h80, \h80, \hF0,   \hE0, \h90, \h90, \h90, \hE0,
       \hF0, \h80, \hF0, \h80, \hF0,   \hF0, \h80, \hF0, \h80, \h80 >>

pixel_buffer == {}

\* bit_at counting from the most significant bit
bit_at_FromMsb(input, n) == IF n < 8 THEN Bit(input, 7 - n) = 1 ELSE FALSE

bit_at(input, n) == IF n < 8 THEN Bit(input, n) = 1 ELSE FALSE

\* Target without the wrap of the column: bits past the right edge are lost
Target_AlwaysClips(x, y, row, bit, clip) ==
    LET py == (y + row) % DISPLAY_HEIGHT
        px == (x % DISPLAY_WIDTH) + bit
    IN IF px >= DISPLAY_WIDTH THEN -1 ELSE DISPLAY_WIDTH * py + px

\* The pixel index the two loops of draw_sprite reach for (row, bit), or -1
\* in clipped mode when the column lies past the right edge
Target(x, y, row, bit, clip) ==
    LET py == (y + row) % DISPLAY_HEIGHT
        px == IF clip THEN (x % DISPLAY_WIDTH) + bit ELSE (x + bit) % DISPLAY_WIDTH
    IN IF px >= DISPLAY_WIDTH THEN -1 ELSE DISPLAY_WIDTH * py + px

\* draw_sprite with pixel | sprite in place of pixel ^ sprite
DrawLoops_Or(px, x, y, sprite, clip) ==
    LET touched == {Target(x, y, c[1], c[2], clip) :
                       c \in {d \in (0..(Len(sprite) - 1)) \X (0..7) :
                                 /\ bit_at(sprite[d[1] + 1], 7 - d[2])
                                 /\ Target(x, y, d[1], d[2], clip) # -1}}
    IN [pixels |-> px \cup touched, collision |-> \E p \in touched : p \in px]

\* The loops of draw_sprite in closed form.  Each (row, bit) whose sprite bit
\* is 1 toggles its target pixel once, in order: a pixel ends up toggled when
\* it is hit an odd number of times, and a 1 -> 0 transition happens at a
\* pixel that was lit and is hit, or that is hit twice.
DrawLoops(px, x, y, sprite, clip) ==
    LET cells == {c \in (0..(Len(sprite) - 1)) \X (0..7) :
                     /\ bit_at(sprite[c[1] + 1], 7 - c[2])
                     /\ Target(x, y, c[1], c[2], clip) # -1}
        hits(p) == Cardinality({c \in cells : Target(x, y, c[1], c[2], clip) = p})
        touched == {Target(x, y, c[1], c[2], clip) : c \in cells}
    IN [pixels |-> (px \ touched) \cup
                   {p \in touched : (p \in px) # (hits(p) % 2 = 1)},
        collision |-> \E p \in touched : p \in px \/ hits(p) >= 2]

draw_sprite(px, x, y, sprite) == DrawLoops(px, x, y, sprite, FALSE)

draw_sprite_wrapped(px, x, y, sprite) == draw_sprite(px, x, y, sprite)

draw_sprite_clipped(px, x, y, sprite) == DrawLoops(px, x, y, sprite, TRUE)

-----------------------------------------------------------------------------
(* Keyboard and timers, as far as the interpreter thread reads them *)

Up == "Up"
Down == "Down"
Keys == 0..15

\* Key::from(v): Some(key) for 0..15, None (here -1) otherwise
KeyFrom(b) == IF b \in Keys THEN b ELSE -1

is_key_down(ks, key) == ks[key] = Down

-----------------------------------------------------------------------------
(* execute_next_inst (system.rs), one operator per match arm.                *)
(* s is the System as the call finds it: pc, v, i, stack, memory, pixels,    *)
(* delay, sound, keys, quirks.  Each arm yields s as the arm leaves it, with *)
(* err = the SystemError returned ("None" when there is none, "Panic" when   *)
(* the arm panics) and ret = TRUE when the arm returns Ok(()) itself instead *)
(* of reaching the pc += 2 that ends the function.                           *)

Fail(s, e) == [s EXCEPT !.err = e]

SetV(s, x, val) == [s EXCEPT !.v[x] = val]

Skip(s, cond) == IF cond THEN [s EXCEPT !.pc = s.pc + 2] ELSE s

ExecClearDisplay(s) == [s EXCEPT !.pixels = pixel_buffer]

ExecReturn(s) ==
    IF Len(s.stack) = 0
    THEN Fail(s, "StackUnderflow")
    ELSE [s EXCEPT !.pc = s.stack[Len(s.stack)],
                   !.stack = SubSeq(s.stack, 1, Len(s.stack) - 1)]

\* Jump without its own return: the pc += 2 that ends the function runs too
ExecJump_FallsThrough(s, nnn) ==
    IF s.pc = nnn
    THEN Fail(s, "SelfJump")
    ELSE [s EXCEPT !.pc = nnn]

ExecJump(s, nnn) ==
    IF s.pc = nnn
    THEN Fail(s, "SelfJump")
    ELSE [s EXCEPT !.pc = nnn, !.ret = TRUE]

\* Call that pushes before it checks the depth
ExecCall_PushFirst(s, nnn) ==
    LET pushed == [s EXCEPT !.stack = Append(s.stack, s.pc)] IN
    IF Len(pushed.stack) > 16
    THEN Fail(pushed, "StackOverflow")
    ELSE [pushed EXCEPT !.pc = nnn, !.ret = TRUE]

\* Call whose depth check is > instead of >=
ExecCall_OffByOne(s, nnn) ==
    IF Len(s.stack) > 16
    THEN Fail(s, "StackOverflow")
    ELSE [s EXCEPT !.stack = Append(s.stack, s.pc), !.pc = nnn, !.ret = TRUE]

\* Call that refuses the 16th entry
ExecCall_Limit15(s, nnn) ==
    IF Len(s.stack) >= 15
    THEN Fail(s, "StackOverflow")
    ELSE [s EXCEPT !.stack = Append(s.stack, s.pc), !.pc = nnn, !.ret = TRUE]

\* Call that pushes the address of the next instruction
ExecCall_PushNext(s, nnn) ==
    IF Len(s.stack) >= 16
    THEN Fail(s, "StackOverflow")
    ELSE [s EXCEPT !.stack = Append(s.stack, s.pc + 2), !.pc = nnn, !.ret = TRUE]

ExecCall(s, nnn) ==
    IF Len(s.stack) >= 16
    THEN Fail(s, "StackOverflow")
    ELSE [s EXCEPT !.stack = Append(s.stack, s.pc), !.pc = nnn, !.ret = TRUE]

ExecSkipEqImm(s, x, kk) == Skip(s, s.v[x] = kk)

ExecSkipNotEqImm(s, x, kk) == Skip(s, s.v[x] # kk)

ExecSkipEqReg(s, x, y) == Skip(s, s.v[x] = s.v[y])

ExecSkipNotEqReg(s, x, y) == Skip(s, s.v[x] # s.v[y])

ExecLoadImm(s, x, kk) == SetV(s, x, kk)

ExecAddImm(s, x, kk) == SetV(s, x, (s.v[x] + kk) % U8)

ExecLoadReg(s, x, y) == SetV(s, x, s.v[y])

ExecOrReg(s, x, y) == SetV(s, x, BitwiseOr(s.v[x], s.v[y]))

ExecAndReg(s, x, y) == SetV(s, x, BitwiseAnd(s.v[x], s.v[y]))

ExecXorReg(s, x, y) == SetV(s, x, BitwiseXor(s.v[x], s.v[y]))

\* overflowing_add, then v[x] = sum, then v[VF] = overflow
ExecAddReg(s, x, y) ==
    LET sum == s.v[x] + s.v[y] IN
    SetV(SetV(s, x, sum % U8), VF, IF sum >= U8 THEN 1 ELSE 0)

\* overflowing_sub, then v[x] = sub, then v[VF] = !overflow
ExecSubReg(s, x, y) ==
    LET sub == s.v[x] - s.v[y] IN
    SetV(SetV(s, x, sub % U8), VF, IF sub < 0 THEN 0 ELSE 1)

\* SubN with the flag of SubReg's comparison
ExecSubN_FlagOfSub(s, x, y) ==
    LET sub == s.v[y] - s.v[x] IN
    SetV(SetV(s, x, sub % U8), VF, IF s.v[x] - s.v[y] < 0 THEN 0 ELSE 1)

ExecSubN(s, x, y) ==
    LET sub == s.v[y] - s.v[x] IN
    SetV(SetV(s, x, sub % U8), VF, IF sub < 0 THEN 0 ELSE 1)

\* both branches write v[VF] first and read the source again for v[x]
ExecShiftRight(s, x, y) ==
    IF SHIFT_READS_VX \in s.quirks
    THEN LET f == SetV(s, VF, s.v[x] % 2) IN SetV(f, x, f.v[x] \div 2)
    ELSE LET f == SetV(s, VF, s.v[y] % 2) IN SetV(f, x, f.v[y] \div 2)

ExecShiftLeft(s, x, y) ==
    IF SHIFT_READS_VX \in s.quirks
    THEN LET f == SetV(s, VF, s.v[x] \div 128) IN SetV(f, x, (f.v[x] * 2) % U8)
    ELSE LET f == SetV(s, VF, s.v[y] \div 128) IN SetV(f, x, (f.v[y] * 2) % U8)

ExecLoadI(s, nnn) == [s EXCEPT !.i = nnn]

ExecJumpV0(s, nnn) == [s EXCEPT !.pc = (nnn + s.v[0]) % U16, !.ret = TRUE]

ExecRandom(s, x, kk, rnd) == SetV(s, x, BitwiseAnd(kk, rnd))

ExecDraw(s, x, y, n) ==
    IF ~SliceFits(s.i, n)
    THEN Fail(s, "MemoryReadOverflow")
    ELSE LET bytes == read_slice(s.memory, s.i, n)
             d == IF DRAW_WRAPS_PIXELS \in s.quirks
                  THEN draw_sprite_wrapped(s.pixels, s.v[x], s.v[y], bytes)
                  ELSE draw_sprite_clipped(s.pixels, s.v[x], s.v[y], bytes)
         IN [s EXCEPT !.pixels = d.pixels, !.v[VF] = IF d.collision THEN 1 ELSE 0]

ExecSkipKeyPressed(s, x) ==
    Skip(s, KeyFrom(s.v[x]) # -1 /\ is_key_down(s.keys, KeyFrom(s.v[x])))

ExecSkipKeyNotPressed(s, x) ==
    Skip(s, KeyFrom(s.v[x]) # -1 /\ ~is_key_down(s.keys, KeyFrom(s.v[x])))

ExecLoadDelayTimer(s, x) == SetV(s, x, s.delay)

ExecSetDelayTimer(s, x) == [s EXCEPT !.delay = s.v[x]]

ExecSetSoundTimer(s, x) == [s EXCEPT !.sound = s.v[x]]

ExecAddI(s, x) == [s EXCEPT !.i = (s.i + s.v[x]) % U16]

ExecLoadSprite(s, x) == [s EXCEPT !.i = FONT_SPRITES_ADDRESS + s.v[x] * 5]

\* format!("{:03}") gives the three decimal digits; write_slice panics when
\* they do not fit
ExecLoadBCD(s, x) ==
    LET a == << s.v[x] \div 100, (s.v[x] \div 10) % 10, s.v[x] % 10 >> IN
    IF ~SliceFits(s.i, 3)
    THEN Fail(s, "Panic")
    ELSE [s EXCEPT !.memory = write_slice(s.memory, s.i, a)]

\* SaveRegs with the exclusive range v[0..x] in place of v[0..=x]
ExecSaveRegs_Exclusive(s, x) ==
    IF ~SliceFits(s.i, x)
    THEN Fail(s, "Panic")
    ELSE [s EXCEPT !.memory = write_slice(s.memory, s.i, [k \in 1..x |-> s.v[k - 1]]),
                   !.i = IF LOAD_STORE_IGNORES_I \in s.quirks THEN s.i ELSE s.i + x + 1]

\* write_slice has no bounds check of its own: the slice index panics
ExecSaveRegs(s, x) ==
    IF ~SliceFits(s.i, x + 1)
    THEN Fail(s, "Panic")
    ELSE [s EXCEPT !.memory = write_slice(s.memory, s.i, [k \in 1..(x + 1) |-> s.v[k - 1]]),
                   !.i = IF LOAD_STORE_IGNORES_I \in s.quirks THEN s.i ELSE s.i + x + 1]

ExecLoadRegs(s, x) ==
    IF ~SliceFits(s.i, x + 1)
    THEN Fail(s, "MemoryReadOverflow")
    ELSE LET sl == read_slice(s.memory, s.i, x + 1) IN
         [s EXCEPT !.v = [r \in 0..15 |-> IF r <= x THEN sl[r + 1] ELSE s.v[r]],
                   !.i = IF LOAD_STORE_IGNORES_I \in s.quirks THEN s.i ELSE s.i + x + 1]

\* wait_for_key_press returned key (Some) or -1 (None)
ExecWaitKeyPress(s, x, key) ==
    IF key = -1 THEN Fail(s, "Interrupted") ELSE SetV(s, x, key)

\* The match of execute_next_inst.  rnd is the byte rng.gen() yields; key is
\* what wait_for_key_press returned.
ExecInstr(s, in, rnd, key) ==
    CASE in.op = "ClearDisplay" -> ExecClearDisplay(s)
      [] in.op = "Return" -> ExecReturn(s)
      [] in.op = "Jump" -> ExecJump(s, in.nnn)
      [] in.op = "Call" -> ExecCall(s, in.nnn)
      [] in.op = "SkipEqImm" -> ExecSkipEqImm(s, in.x, in.kk)
      [] in.op = "SkipNotEqImm" -> ExecSkipNotEqImm(s, in.x, in.kk)
      [] in.op = "SkipEqReg" -> ExecSkipEqReg(s, in.x, in.y)
      [] in.op = "LoadImm" -> ExecLoadImm(s, in.x, in.kk)
      [] in.op = "AddImm" -> ExecAddImm(s, in.x, in.kk)
      [] in.op = "LoadReg" -> ExecLoadReg(s, in.x, in.y)
      [] in.op = "OrReg" -> ExecOrReg(s, in.x, in.y)
      [] in.op = "AndReg" -> ExecAndReg(s, in.x, in.y)
      [] in.op = "XorReg" -> ExecXorReg(s, in.x, in.y)
      [] in.op = "AddReg" -> ExecAddReg(s, in.x, in.y)
      [] in.op = "SubReg" -> ExecSubReg(s, in.x, in.y)
      [] in.op = "ShiftRight" -> ExecShiftRight(s, in.x, in.y)
      [] in.op = "SubN" -> ExecSubN(s, in.x, in.y)
      [] in.op = "ShiftLeft" -> ExecShiftLeft(s, in.x, in.y)
      [] in.op = "SkipNotEqReg" -> ExecSkipNotEqReg(s, in.x, in.y)
      [] in.op = "LoadI" -> ExecLoadI(s, in.nnn)
      [] in.op = "JumpV0" -> ExecJumpV0(s, in.nnn)
      [] in.op = "Random" -> ExecRandom(s, in.x, in.kk, rnd)
      [] in.op = "Draw" -> ExecDraw(s, in.x, in.y, in.n)
      [] in.op = "SkipKeyPressed" -> ExecSkipKeyPressed(s, in.x)
      [] in.op = "SkipKeyNotPressed" -> ExecSkipKeyNotPressed(s, in.x)
      [] in.op = "LoadDelayTimer" -> ExecLoadDelayTimer(s, in.x)
      [] in.op = "WaitKeyPress" -> ExecWaitKeyPress(s, in.x, key)
      [] in.op = "SetDelayTimer" -> ExecSetDelayTimer(s, in.x)
      [] in.op = "SetSoundTimer" -> ExecSetSoundTimer(s, in.x)
      [] in.op = "AddI" -> ExecAddI(s, in.x)
      [] in.op = "LoadSprite" -> ExecLoadSprite(s, in.x)
      [] in.op = "LoadBCD" -> ExecLoadBCD(s, in.x)
      [] in.op = "SaveRegs" -> ExecSaveRegs(s, in.x)
      [] in.op = "LoadRegs" -> ExecLoadRegs(s, in.x)

\* The instruction execute_next_inst fetches and decodes in s: the Instr,
\* or the error of the fetch or of the decoder in op
Fetch(s) ==
    LET instr == read_u16(s.memory, s.pc) IN
    IF instr = -1 THEN Instr("MemoryReadOverflow", 0, 0, 0, 0, 0)
    ELSE IF parse_opcode(instr) = None THEN Instr("UnknownInstruction", 0, 0, 0, 0, 0)
    ELSE parse_opcode(instr)

\* execute_next_inst as a whole
execute_next_inst(s, rnd, key) ==
    LET in == Fetch(s) IN
    IF in.op \in SystemError
    THEN Fail(s, in.op)
    ELSE LET r == ExecInstr(s, in, rnd, key) IN
         IF r.err # "None" \/ r.ret THEN r ELSE [r EXCEPT !.pc = r.pc + 2]

-----------------------------------------------------------------------------
(* ROM images: sequences of big-endian 16-bit words *)

Roms ==
    [ ClsJp        |-> << \h00E0, \h1200 >>,
      Calls17      |-> [k \in 1..17 |-> \h2202],
      CallRet      |-> << \h2206, \h2206, \h1204, \h220A, \h00EE, \h00EE >>,
      Underflow    |-> << \h6001, \h00EE >>,
      Unknown      |-> << \h6001, \h5121 >>,
      SelfJump     |-> << \h6001, \h1202 >>,
      WaitKey      |-> << \h6A07, \hF10A, \hE19E, \h00E0, \h0000 >>,
      SaveOverflow |-> << \hAFFF, \h6001, \hF155 >>,
      LoadOverflow |-> << \h6001, \hAFFF, \hF165 >>,
      DrawOverflow |-> << \h6001, \hAFFF, \hD012 >>,
      JumpOdd      |-> << \h1FFF >>,
      JumpV0Far    |-> << \h60FF, \hBFFF >>,
      LastWord     |-> [k \in 1..1792 |-> IF k = 1 THEN \h1FFE
                                          ELSE IF k = 1792 THEN \h6001 ELSE 0],
      Bcd          |-> << \h607B, \hA300, \hF033, \hAFFE, \hF033 >>,
      Font         |-> << \h6000, \hF029, \hD125, \hD125 >>,
      Timers       |-> << \h6002, \hF015, \hF018, \hF107 >>,
      KeySkips     |-> << \h6001, \hE09E, \hE0A1, \h6102 >>,
      SaveLoad     |-> << \h6011, \h6122, \hA300, \hF155, \h6000, \hF165 >>,
      Rnd          |-> << \hC003 >>,
      KeyBad       |-> << \h6010, \hE0A1, \hE09E >>,
      DrawEdge     |-> << \h603E, \h611E, \hA000, \hD015, \h6000, \hD015 >> ]

\* the bytes of a word sequence, high byte first
ImageBytes(words) ==
    [k \in 1..(2 * Len(words)) |->
        IF k % 2 = 1 THEN words[(k + 1) \div 2] \div 256 ELSE words[k \div 2] % 256]

\* Memory::new, then the font table of System::new_with_options
NewMemory == write_slice(<<>>, FONT_SPRITES_ADDRESS, font_sprites)

\* System::load_image_bytes
load_image_bytes(m, bytes) == write_slice(m, RESERVED_SIZE, bytes)

\* keys the front-end presses and releases in the model
TestKeys == {1, 7}

\* The System as execute_next_inst finds it
Cur ==
    [pc |-> pc, v |-> v, i |-> i, stack |-> stack, memory |-> memory,
     pixels |-> pixels, delay |-> delay_timer, sound |-> sound_timer,
     keys |-> key_states, quirks |-> quirks, err |-> "None", ret |-> FALSE]

\* System::new_with_options, then load_image_bytes(image), then start, with
\* a host that calls SystemController::stop up to stops times
InitSysStops(stops) ==
    /\ rom \in DOMAIN Roms
    /\ quirks \in SUBSET Quirks
    /\ pc = RESERVED_SIZE
    /\ v = [r \in 0..15 |-> 0]
    /\ i = 0
    /\ stack = <<>>
    /\ memory = load_image_bytes(NewMemory, ImageBytes(Roms[rom]))
    /\ pixels = pixel_buffer
    /\ delay_timer = 0
    /\ sound_timer = 0
    /\ key_states = [k \in Keys |-> Up]
    /\ waiting = FALSE
    /\ wait_chan = <<>>
    /\ stop_waiter = 0
    /\ stop = FALSE
    /\ cpu_at = "check"
    /\ result = "Running"
    /\ steps = 0
    /\ last_instr = None
    /\ callsite = <<>>
    /\ host_at = "idle"
    /\ stops_left = stops
    /\ keys_left = MaxKeyEvents
    /\ key_msgs = <<>>
    /\ kb_at = "idle"
    /\ kb_ret = -2
    /\ kb_seen = <<>>
    /\ kb_calls = 0
    /\ kb_posts = 0
    /\ kb_stops = 0
    /\ kb_ups = {}
    /\ kb_last = [k \in 0..15 |-> "Up"]
    /\ TimerNew
    /\ PortNew

InitSys == InitSysStops(MaxStops)

Init == InitSys /\ RestIdle

envvars == <<key_states, waiting, wait_chan, stop_waiter, stop, host_at,
             stops_left, keys_left>>

\* The effect of one execute_next_inst call that returned r on the variables
\* the interpreter thread owns, and on run: an Err ends run (the ? operator),
\* a panic ends the thread.
Returned(in, r) ==
    /\ pc' = r.pc
    /\ v' = r.v
    /\ i' = r.i
    /\ stack' = r.stack
    /\ memory' = r.memory
    /\ pixels' = r.pixels
    /\ delay_timer' = r.delay
    /\ sound_timer' = r.sound
    /\ last_instr' = in
    /\ callsite' = IF r.err # "None" THEN callsite
                   ELSE IF in.op = "Call"
                        THEN Append(callsite, [addr |-> pc, depth |-> Len(stack)])
                   ELSE IF in.op = "Return"
                        THEN SubSeq(callsite, 1, Len(callsite) - 1)
                   ELSE callsite
    /\ result' = IF r.err = "None" THEN "Running" ELSE r.err
    /\ cpu_at' = IF r.err = "None" THEN "check" ELSE "done"

\* the values rng.gen::<u8>() can yield, where the instruction draws one
RandomBytes(in) == IF in.op = "Random" THEN 0..255 ELSE {0}

\* the loop test with the stop pin never polled
LoopCheck_IgnoresStop ==
    /\ cpu_at = "check"
    /\ steps < MaxSteps /\ cpu_at' = "exec" /\ UNCHANGED result
    /\ UNCHANGED <<pc, v, i, stack, memory, pixels, quirks, delay_timer,
                   sound_timer, steps, last_instr, callsite, rom>>
    /\ UNCHANGED <<key_states, waiting, wait_chan, stop_waiter, stop, host_at,
                   stops_left, keys_left>>
    /\ UNCHANGED <<kbvars, tmvars, ptvars, restvars>>

\* run: the test of the while loop
LoopCheck ==
    /\ cpu_at = "check"
    /\ IF stop
       THEN result' = "Ok" /\ cpu_at' = "done"
       ELSE steps < MaxSteps /\ cpu_at' = "exec" /\ UNCHANGED result
    /\ UNCHANGED <<pc, v, i, stack, memory, pixels, quirks, delay_timer,
                   sound_timer, steps, last_instr, callsite, rom>>
    /\ UNCHANGED envvars
    /\ UNCHANGED <<kbvars, tmvars, ptvars, restvars>>

\* run: self.execute_next_inst(&mut rng)?  FX0A blocks inside
\* wait_for_key_press after registering the wait; WaitKeyReturn finishes it.
ExecuteNextInst ==
    /\ cpu_at = "exec"
    /\ steps' = steps + 1
    /\ LET in == Fetch(Cur) IN
       IF in.op = "WaitKeyPress"
       THEN /\ waiting' = TRUE
            /\ cpu_at' = "wait"
            /\ last_instr' = in
            /\ UNCHANGED <<pc, v, i, stack, memory, pixels, delay_timer,
                           sound_timer, callsite, result>>
       ELSE /\ \E rnd \in RandomBytes(in) :
                 Returned(in, execute_next_inst(Cur, rnd, -1))
            /\ UNCHANGED waiting
    /\ UNCHANGED <<quirks, rom, key_states, wait_chan, stop_waiter, stop,
                   host_at, stops_left, keys_left>>
    /\ UNCHANGED <<kbvars, tmvars, ptvars, restvars>>

\* wait_for_key_press: the select! over stop_waiter_receiver and
\* wait_receiver, and the rest of the FX0A arm
WaitKeyReturn ==
    /\ cpu_at = "wait"
    /\ \/ /\ stop_waiter > 0
          /\ stop_waiter' = stop_waiter - 1
          /\ Returned(Fetch(Cur), execute_next_inst(Cur, 0, -1))
          /\ UNCHANGED wait_chan
       \/ /\ wait_chan # <<>>
          /\ wait_chan' = Tail(wait_chan)
          /\ Returned(Fetch(Cur), execute_next_inst(Cur, 0, Head(wait_chan)))
          /\ UNCHANGED stop_waiter
    /\ UNCHANGED <<quirks, rom, steps, key_states, waiting, stop, host_at,
                   stops_left, keys_left>>
    /\ UNCHANGED <<kbvars, tmvars, ptvars, restvars>>

\* SystemController::stop, first statement: self.stop_pin.raise()
ControllerStopRaise ==
    /\ host_at = "idle"
    /\ stops_left > 0
    /\ stops_left' = stops_left - 1
    /\ stop' = TRUE
    /\ host_at' = "send"
    /\ UNCHANGED <<pc, v, i, stack, memory, pixels, quirks, delay_timer,
                   sound_timer, key_states, waiting, wait_chan, stop_waiter,
                   cpu_at, result, steps, last_instr, callsite, rom, keys_left>>
    /\ UNCHANGED <<kbvars, tmvars, ptvars, restvars>>

\* SystemController::stop without the call of KeyboardController::stop
ControllerStopSend_NoSend ==
    /\ host_at = "send"
    /\ host_at' = "idle"
    /\ UNCHANGED <<pc, v, i, stack, memory, pixels, quirks, delay_timer,
                   sound_timer, key_states, waiting, wait_chan, stop, stop_waiter,
                   cpu_at, result, steps, last_instr, callsite, rom,
                   stops_left, keys_left>>
    /\ UNCHANGED <<kbvars, tmvars, ptvars, restvars>>

\* SystemController::stop, second statement: KeyboardController::stop, a
\* blocking send on the bounded(1) stop_waiter channel
ControllerStopSend ==
    /\ host_at = "send"
    /\ stop_waiter < 1
    /\ stop_waiter' = stop_waiter + 1
    /\ host_at' = "idle"
    /\ UNCHANGED <<pc, v, i, stack, memory, pixels, quirks, delay_timer,
                   sound_timer, key_states, waiting, wait_chan, stop,
                   cpu_at, result, steps, last_instr, callsite, rom,
                   stops_left, keys_left>>
    /\ UNCHANGED <<kbvars, tmvars, ptvars, restvars>>

\* Keyboard worker: one KeyboardMessage { state, key } taken from the input
\* channel and handled
KeyEvent ==
    /\ keys_left > 0
    /\ keys_left' = keys_left - 1
    /\ \E key \in TestKeys, state \in {Up, Down} :
          /\ key_states' = [key_states EXCEPT ![key] = state]
          /\ IF state = Down /\ waiting
             THEN /\ wait_chan' = IF Len(wait_chan) < 1 THEN Append(wait_chan, key)
                                  ELSE wait_chan
                  /\ waiting' = FALSE
             ELSE UNCHANGED <<wait_chan, waiting>>
    /\ UNCHANGED <<pc, v, i, stack, memory, pixels, quirks, delay_timer,
                   sound_timer, stop_waiter, stop, cpu_at, result, steps,
                   last_instr, callsite, host_at, rom, stops_left>>
    /\ UNCHANGED <<kbvars, tmvars, ptvars, restvars>>

\* Timer worker of the delay timer: one fetch_update that decrements
DelayTick ==
    /\ delay_timer > 0
    /\ delay_timer' = delay_timer - 1
    /\ UNCHANGED <<pc, v, i, stack, memory, pixels, quirks, sound_timer,
                   cpu_at, result, steps, last_instr, callsite, rom>>
    /\ UNCHANGED envvars
    /\ UNCHANGED <<kbvars, tmvars, ptvars, restvars>>

\* Timer worker of the sound timer
SoundTick ==
    /\ sound_timer > 0
    /\ sound_timer' = sound_timer - 1
    /\ UNCHANGED <<pc, v, i, stack, memory, pixels, quirks, delay_timer,
                   cpu_at, result, steps, last_instr, callsite, rom>>
    /\ UNCHANGED envvars
    /\ UNCHANGED <<kbvars, tmvars, ptvars, restvars>>

Next ==
    \/ LoopCheck
    \/ ExecuteNextInst
    \/ WaitKeyReturn
    \/ ControllerStopRaise
    \/ ControllerStopSend
    \/ KeyEvent
    \/ DelayTick
    \/ SoundTick

Spec == Init /\ [][Next]_vars

-----------------------------------------------------------------------------
(* The Keyboard used directly, the way the tests of keyboard.rs use it: a    *)
(* caller thread making wait_for_key_press calls, a front end posting        *)
(* messages to the input channel, the worker thread handling them one at a   *)
(* time, and KeyboardController::stop interrupting.  The interpreter does    *)
(* not run here.                                                             *)

MaxCalls == 2
MaxPosts == 3
MaxInterrupts == 1

sysvars == <<pc, v, i, stack, memory, pixels, quirks, delay_timer, sound_timer,
             stop, cpu_at, result, steps, last_instr, callsite, host_at, rom,
             stops_left, keys_left>>

KeyboardMessage == [state : {Up, Down}, key : TestKeys]

\* wait_for_key_press, first block: *self.wait_for_key.lock().unwrap() = true
KbRegister ==
    /\ kb_at = "idle"
    /\ kb_calls < MaxCalls
    /\ kb_calls' = kb_calls + 1
    /\ waiting' = TRUE
    /\ kb_at' = "select"
    /\ kb_seen' = <<>>
    /\ UNCHANGED <<key_states, wait_chan, stop_waiter, key_msgs, kb_ret,
                   kb_posts, kb_stops>>
    /\ UNCHANGED <<kb_ups, kb_last>>
    /\ UNCHANGED <<sysvars, tmvars, ptvars, restvars>>

\* wait_for_key_press, the select!: None from stop_waiter_receiver, or the
\* key from wait_receiver; either arm when both are ready
KbSelect ==
    /\ kb_at = "select"
    /\ \/ /\ stop_waiter > 0
          /\ stop_waiter' = stop_waiter - 1
          /\ kb_ret' = -1
          /\ UNCHANGED wait_chan
       \/ /\ wait_chan # <<>>
          /\ wait_chan' = Tail(wait_chan)
          /\ kb_ret' = Head(wait_chan)
          /\ UNCHANGED stop_waiter
    /\ kb_at' = "idle"
    /\ UNCHANGED <<key_states, waiting, key_msgs, kb_seen, kb_calls, kb_posts,
                   kb_stops>>
    /\ UNCHANGED <<kb_ups, kb_last>>
    /\ UNCHANGED <<sysvars, tmvars, ptvars, restvars>>

\* A front end sends one KeyboardMessage on the input port
KbPost ==
    /\ kb_posts < MaxPosts
    /\ kb_posts' = kb_posts + 1
    /\ \E m \in KeyboardMessage :
          /\ key_msgs' = Append(key_msgs, m)
          /\ kb_last' = [kb_last EXCEPT ![m.key] = m.state]
    /\ UNCHANGED <<key_states, waiting, wait_chan, stop_waiter, kb_at, kb_ret,
                   kb_seen, kb_calls, kb_stops>>
    /\ UNCHANGED kb_ups
    /\ UNCHANGED <<sysvars, tmvars, ptvars, restvars>>

\* the worker releasing the wait without writing the key-state table
KbWorker_NoTable ==
    /\ key_msgs # <<>>
    /\ LET m == Head(key_msgs) IN
       /\ key_msgs' = Tail(key_msgs)
       /\ key_states' = IF m.state = Down /\ waiting THEN key_states
                        ELSE [key_states EXCEPT ![m.key] = m.state]
       /\ IF m.state = Down /\ waiting
          THEN /\ wait_chan' = IF Len(wait_chan) < 1 THEN Append(wait_chan, m.key)
                               ELSE wait_chan
               /\ waiting' = FALSE
          ELSE UNCHANGED <<wait_chan, waiting>>
       /\ kb_seen' = IF m.state = Down
                     THEN Append(kb_seen, [key |-> m.key,
                                           was_up |-> key_states[m.key] = Up])
                     ELSE kb_seen
       /\ kb_ups' = IF (m.state = Down /\ waiting /\ Len(wait_chan) < 1) THEN {}
                    ELSE IF m.state = Up THEN kb_ups \cup {m.key} ELSE kb_ups
    /\ UNCHANGED <<stop_waiter, kb_at, kb_ret, kb_calls, kb_posts, kb_stops, kb_last>>
    /\ UNCHANGED <<sysvars, tmvars, ptvars, restvars>>

\* the worker writing the state into every entry of the table
KbWorker_AllKeys ==
    /\ key_msgs # <<>>
    /\ LET m == Head(key_msgs) IN
       /\ key_msgs' = Tail(key_msgs)
       /\ key_states' = [k \in Keys |-> m.state]
       /\ IF m.state = Down /\ waiting
          THEN /\ wait_chan' = IF Len(wait_chan) < 1 THEN Append(wait_chan, m.key)
                               ELSE wait_chan
               /\ waiting' = FALSE
          ELSE UNCHANGED <<wait_chan, waiting>>
       /\ kb_seen' = IF m.state = Down
                     THEN Append(kb_seen, [key |-> m.key,
                                           was_up |-> key_states[m.key] = Up])
                     ELSE kb_seen
       /\ kb_ups' = IF (m.state = Down /\ waiting /\ Len(wait_chan) < 1) THEN {}
                    ELSE IF m.state = Up THEN kb_ups \cup {m.key} ELSE kb_ups
    /\ UNCHANGED <<stop_waiter, kb_at, kb_ret, kb_calls, kb_posts, kb_stops, kb_last>>
    /\ UNCHANGED <<sysvars, tmvars, ptvars, restvars>>

\* the worker without the try_send of the key
KbWorker_NoSend ==
    /\ key_msgs # <<>>
    /\ LET m == Head(key_msgs) IN
       /\ key_msgs' = Tail(key_msgs)
       /\ key_states' = [key_states EXCEPT ![m.key] = m.state]
       /\ waiting' = IF m.state = Down THEN FALSE ELSE waiting
       /\ kb_seen' = IF m.state = Down
                     THEN Append(kb_seen, [key |-> m.key,
                                           was_up |-> key_states[m.key] = Up])
                     ELSE kb_seen
    /\ UNCHANGED <<wait_chan, stop_waiter, kb_at, kb_ret, kb_calls, kb_posts,
                   kb_stops>>
    /\ kb_ups' = LET m == Head(key_msgs) IN
                 IF FALSE THEN {}
                 ELSE IF m.state = Up THEN kb_ups \cup {m.key} ELSE kb_ups
    /\ UNCHANGED kb_last
    /\ UNCHANGED <<sysvars, tmvars, ptvars, restvars>>

\* Keyboard worker: recv(receiver) -> msg, under the key_states write lock
\* and the wait_for_key mutex
KbWorker ==
    /\ key_msgs # <<>>
    /\ LET m == Head(key_msgs) IN
       /\ key_msgs' = Tail(key_msgs)
       /\ key_states' = [key_states EXCEPT ![m.key] = m.state]
       /\ IF m.state = Down /\ waiting
          THEN /\ wait_chan' = IF Len(wait_chan) < 1 THEN Append(wait_chan, m.key)
                               ELSE wait_chan
               /\ waiting' = FALSE
          ELSE UNCHANGED <<wait_chan, waiting>>
       /\ kb_seen' = IF m.state = Down
                     THEN Append(kb_seen, [key |-> m.key,
                                           was_up |-> key_states[m.key] = Up])
                     ELSE kb_seen
    /\ UNCHANGED <<stop_waiter, kb_at, kb_ret, kb_calls, kb_posts, kb_stops>>
    /\ kb_ups' = LET m == Head(key_msgs) IN
                 IF (m.state = Down /\ waiting /\ Len(wait_chan) < 1) THEN {}
                 ELSE IF m.state = Up THEN kb_ups \cup {m.key} ELSE kb_ups
    /\ UNCHANGED kb_last
    /\ UNCHANGED <<sysvars, tmvars, ptvars, restvars>>

\* KeyboardController::stop: a blocking send on the bounded(1) channel
KbInterrupt ==
    /\ kb_stops < MaxInterrupts
    /\ stop_waiter < 1
    /\ stop_waiter' = stop_waiter + 1
    /\ kb_stops' = kb_stops + 1
    /\ UNCHANGED <<key_states, waiting, wait_chan, key_msgs, kb_at, kb_ret,
                   kb_seen, kb_calls, kb_posts>>
    /\ UNCHANGED <<kb_ups, kb_last>>
    /\ UNCHANGED <<sysvars, tmvars, ptvars, restvars>>

\* Keyboard::new inside a System that is never started
InitKeyboard == Init /\ rom = "ClsJp" /\ quirks = {}

NextKeyboard ==
    \/ KbRegister
    \/ KbSelect
    \/ KbPost
    \/ KbWorker
    \/ KbInterrupt

\* the worker and the caller are OS threads
SpecKeyboard ==
    /\ InitKeyboard /\ [][NextKeyboard]_vars
    /\ WF_vars(KbWorker)
    /\ WF_vars(KbSelect)

-----------------------------------------------------------------------------
(* Single instructions: the System in a state a program can have built (any  *)
(* register contents, quirks set at construction), about to execute one      *)
(* arithmetic or shift instruction at 0x200.                                 *)

-----------------------------------------------------------------------------
(* One CountDownTimer used directly, the way the tests of timer.rs use it:   *)
(* the owning thread calling update and finally dropping the timer, the      *)
(* ticker thread, and a reader of the output port.  fetch_update is a load   *)
(* followed by a compare-exchange that retries with the value it found.      *)

MaxUpdates == 3
MaxSpurious == 1

TimerValues == {0, 1, 2, 3}

\* everything but the timer
nontmvars == <<sysvars, key_states, waiting, wait_chan, stop_waiter, kbvars,
               ptvars, restvars>>

\* Sender::try_send on the bounded(1) channel: a full channel drops the event
try_send(ch, m) == IF Len(ch) < 1 THEN Append(ch, m) ELSE ch

\* thread::park returning because the token is set; it consumes the token
TickerPark ==
    /\ t_at = "park" /\ t_token
    /\ t_token' = FALSE
    /\ t_at' = "load"
    /\ UNCHANGED <<t_value, t_stop, t_chan, t_loaded, t_cl, t_upds, t_spur,
                   t_from_zero, t_written, t_started, t_stopped, t_zeros, t_at_drop>>
    /\ UNCHANGED <<t_last, t_stored, t_decs>>
    /\ UNCHANGED nontmvars

\* thread::park returning with no token set, which its contract allows
TickerParkSpurious ==
    /\ t_at = "park" /\ ~t_token /\ t_spur < MaxSpurious
    /\ t_spur' = t_spur + 1
    /\ t_at' = "load"
    /\ UNCHANGED <<t_value, t_token, t_stop, t_chan, t_loaded, t_cl, t_upds,
                   t_from_zero, t_written, t_started, t_stopped, t_zeros, t_at_drop>>
    /\ UNCHANGED <<t_last, t_stored, t_decs>>
    /\ UNCHANGED nontmvars

\* fetch_update: the initial load of the value
TickerLoad ==
    /\ t_at = "load"
    /\ t_loaded' = t_value
    /\ t_at' = "cas"
    /\ UNCHANGED <<t_value, t_token, t_stop, t_chan, t_cl, t_upds, t_spur,
                   t_from_zero, t_written, t_started, t_stopped, t_zeros, t_at_drop>>
    /\ UNCHANGED <<t_last, t_stored, t_decs>>
    /\ UNCHANGED nontmvars

\* fetch_update storing the decrement whatever the value has become
TickerCas_Blind ==
    /\ t_at = "cas"
    /\ IF t_loaded = 0
       THEN /\ t_chan' = try_send(t_chan, "Stopped")
            /\ t_stopped' = IF Len(t_chan) < 1 THEN t_stopped + 1 ELSE t_stopped
            /\ t_at' = "check"
            /\ UNCHANGED <<t_value, t_loaded, t_zeros>>
       ELSE /\ t_value' = t_loaded - 1
            /\ t_zeros' = IF t_loaded = 1 /\ t_value # 0 THEN t_zeros + 1 ELSE t_zeros
            /\ t_at' = "load"
            /\ UNCHANGED <<t_chan, t_stopped, t_loaded>>
    /\ UNCHANGED <<t_token, t_stop, t_cl, t_upds, t_spur, t_from_zero, t_written,
                   t_started, t_at_drop>>
    /\ t_decs' = IF t_loaded # 0 THEN t_decs + 1 ELSE t_decs
    /\ UNCHANGED <<t_last, t_stored>>
    /\ UNCHANGED nontmvars

\* fetch_update decrementing without the zero test of its closure
TickerCas_Wraps ==
    /\ t_at = "cas"
    /\ IF t_value = t_loaded
       THEN /\ t_value' = (t_loaded - 1) % U8
            /\ t_zeros' = IF t_loaded = 1 THEN t_zeros + 1 ELSE t_zeros
            /\ t_at' = "load"
            /\ UNCHANGED t_loaded
       ELSE /\ t_loaded' = t_value
            /\ UNCHANGED <<t_value, t_zeros, t_at>>
    /\ UNCHANGED <<t_chan, t_stopped>>
    /\ UNCHANGED <<t_token, t_stop, t_cl, t_upds, t_spur, t_from_zero, t_written,
                   t_started, t_at_drop>>
    /\ t_decs' = IF t_value = t_loaded THEN t_decs + 1 ELSE t_decs
    /\ UNCHANGED <<t_last, t_stored>>
    /\ UNCHANGED nontmvars

\* fetch_update after the load: the closure returns None for 0, and then
\* Stopped is try_sent and the inner loop left; otherwise compare-exchange
\* stores the decrement and loop_sleep runs, or finds another value and the
\* closure is tried again on it
TickerCas ==
    /\ t_at = "cas"
    /\ IF t_loaded = 0
       THEN /\ t_chan' = try_send(t_chan, "Stopped")
            /\ t_stopped' = IF Len(t_chan) < 1 THEN t_stopped + 1 ELSE t_stopped
            /\ t_at' = "check"
            /\ UNCHANGED <<t_value, t_loaded, t_zeros>>
       ELSE IF t_value = t_loaded
       THEN /\ t_value' = t_loaded - 1
            /\ t_zeros' = IF t_loaded = 1 THEN t_zeros + 1 ELSE t_zeros
            /\ t_at' = "load"
            /\ UNCHANGED <<t_chan, t_stopped, t_loaded>>
       ELSE /\ t_loaded' = t_value
            /\ UNCHANGED <<t_value, t_zeros, t_chan, t_stopped, t_at>>
    /\ UNCHANGED <<t_token, t_stop, t_cl, t_upds, t_spur, t_from_zero, t_written,
                   t_started, t_at_drop>>
    /\ t_decs' = IF t_loaded # 0 /\ t_value = t_loaded THEN t_decs + 1 ELSE t_decs
    /\ UNCHANGED <<t_last, t_stored>>
    /\ UNCHANGED nontmvars

\* the test of the stop pin after the inner loop
TickerCheckStop ==
    /\ t_at = "check"
    /\ t_at' = IF t_stop THEN "exited" ELSE "park"
    /\ UNCHANGED <<t_value, t_token, t_stop, t_chan, t_loaded, t_cl, t_upds, t_spur,
                   t_from_zero, t_written, t_started, t_stopped, t_zeros, t_at_drop>>
    /\ UNCHANGED <<t_last, t_stored, t_decs>>
    /\ UNCHANGED nontmvars

\* update: the store of val; update(0) returns here
UpdateStore ==
    /\ t_cl = "idle" /\ t_upds < MaxUpdates
    /\ \E val \in TimerValues :
          /\ t_value' = val
          /\ t_written' = val
          /\ t_from_zero' = (t_value = 0)
          /\ t_zeros' = IF t_value # 0 /\ val = 0 THEN t_zeros + 1 ELSE t_zeros
          /\ t_cl' = IF val # 0 THEN "unpark" ELSE "idle"
    /\ t_upds' = t_upds + 1
    /\ UNCHANGED <<t_token, t_stop, t_chan, t_at, t_loaded, t_spur, t_started,
                   t_stopped, t_at_drop>>
    /\ t_stored' = t_value'
    /\ t_decs' = 0
    /\ UNCHANGED t_last
    /\ UNCHANGED nontmvars

\* update waking the ticker only when it is parked at that moment
UpdateUnpark_NoToken ==
    /\ t_cl = "unpark"
    /\ IF t_at = "park" THEN t_at' = "load" ELSE UNCHANGED t_at
    /\ t_cl' = "send"
    /\ UNCHANGED <<t_value, t_token, t_stop, t_chan, t_loaded, t_upds, t_spur,
                   t_from_zero, t_written, t_started, t_stopped, t_zeros, t_at_drop>>
    /\ UNCHANGED <<t_last, t_stored, t_decs>>
    /\ UNCHANGED nontmvars

\* update with val != 0: ticker.thread().unpark() sets the token
UpdateUnpark ==
    /\ t_cl = "unpark"
    /\ t_token' = TRUE
    /\ t_cl' = "send"
    /\ UNCHANGED <<t_value, t_stop, t_chan, t_at, t_loaded, t_upds, t_spur,
                   t_from_zero, t_written, t_started, t_stopped, t_zeros, t_at_drop>>
    /\ UNCHANGED <<t_last, t_stored, t_decs>>
    /\ UNCHANGED nontmvars

\* update with val != 0: try_send(Started)
UpdateSend ==
    /\ t_cl = "send"
    /\ t_chan' = try_send(t_chan, "Started")
    /\ t_started' = IF Len(t_chan) < 1 THEN t_started + 1 ELSE t_started
    /\ t_cl' = "idle"
    /\ UNCHANGED <<t_value, t_token, t_stop, t_at, t_loaded, t_upds, t_spur,
                   t_from_zero, t_written, t_stopped, t_zeros, t_at_drop>>
    /\ UNCHANGED <<t_last, t_stored, t_decs>>
    /\ UNCHANGED nontmvars

\* drop: stop.raise()
DropRaise ==
    /\ t_cl = "idle"
    /\ t_stop' = TRUE
    /\ t_at_drop' = IF t_at = "park" THEN (IF t_token THEN "waking" ELSE "parked")
                    ELSE IF t_at = "check" THEN "check"
                    ELSE IF t_value > 0 THEN "counting" ELSE "stopping"
    /\ t_cl' = "drop_store"
    /\ UNCHANGED <<t_value, t_token, t_chan, t_at, t_loaded, t_upds, t_spur,
                   t_from_zero, t_written, t_started, t_stopped, t_zeros>>
    /\ UNCHANGED <<t_last, t_stored, t_decs>>
    /\ UNCHANGED nontmvars

\* drop: update(0)
DropStore ==
    /\ t_cl = "drop_store"
    /\ t_value' = 0
    /\ t_zeros' = IF t_value # 0 THEN t_zeros + 1 ELSE t_zeros
    /\ t_cl' = "drop_unpark"
    /\ UNCHANGED <<t_token, t_stop, t_chan, t_at, t_loaded, t_upds, t_spur,
                   t_from_zero, t_written, t_started, t_stopped, t_at_drop>>
    /\ t_stored' = 0
    /\ t_decs' = 0
    /\ UNCHANGED t_last
    /\ UNCHANGED nontmvars

\* drop ending without its unpark
DropUnpark_None ==
    /\ t_cl = "drop_unpark"
    /\ t_cl' = "dropped"
    /\ UNCHANGED <<t_value, t_token, t_stop, t_chan, t_at, t_loaded, t_upds, t_spur,
                   t_from_zero, t_written, t_started, t_stopped, t_zeros, t_at_drop>>
    /\ UNCHANGED <<t_last, t_stored, t_decs>>
    /\ UNCHANGED nontmvars

\* drop: ticker.thread().unpark()
DropUnpark ==
    /\ t_cl = "drop_unpark"
    /\ t_token' = TRUE
    /\ t_cl' = "dropped"
    /\ UNCHANGED <<t_value, t_stop, t_chan, t_at, t_loaded, t_upds, t_spur,
                   t_from_zero, t_written, t_started, t_stopped, t_zeros, t_at_drop>>
    /\ UNCHANGED <<t_last, t_stored, t_decs>>
    /\ UNCHANGED nontmvars

\* a reader of output() taking the event off the channel
OutputRecv ==
    /\ t_chan # <<>>
    /\ t_chan' = Tail(t_chan)
    /\ UNCHANGED <<t_value, t_token, t_stop, t_at, t_loaded, t_cl, t_upds, t_spur,
                   t_from_zero, t_written, t_started, t_stopped, t_zeros, t_at_drop>>
    /\ t_last' = Head(t_chan)
    /\ UNCHANGED <<t_stored, t_decs>>
    /\ UNCHANGED nontmvars

InitTimer == Init /\ rom = "ClsJp" /\ quirks = {}

NextTimer ==
    \/ TickerPark
    \/ TickerParkSpurious
    \/ TickerLoad
    \/ TickerCas
    \/ TickerCheckStop
    \/ UpdateStore
    \/ UpdateUnpark
    \/ UpdateSend
    \/ DropRaise
    \/ DropStore
    \/ DropUnpark
    \/ OutputRecv

\* both threads keep running; a park without a token need never return
SpecTimer ==
    /\ InitTimer /\ [][NextTimer]_vars
    /\ WF_vars(TickerPark) /\ WF_vars(TickerLoad) /\ WF_vars(TickerCas)
    /\ WF_vars(TickerCheckStop)
    /\ WF_vars(UpdateUnpark) /\ WF_vars(UpdateSend)
    /\ WF_vars(DropStore) /\ WF_vars(DropUnpark)

-----------------------------------------------------------------------------
(* The edge connect(&term, &system.keyboard) of main: the front end try_sends *)
(* key events to its bounded(128) channel, the PortAdapter thread receives    *)
(* them and try_sends their conversion to the keyboard's bounded(128) input   *)
(* channel, and the keyboard worker handles them.  Both channels have the     *)
(* capacity QueueCap here.  KeyboardMessage converts to itself.               *)

QueueCap == 2
MaxEvents == 4

\* the keyboard's history variables, which the edge leaves alone
kbhist == <<kb_at, kb_ret, kb_seen, kb_calls, kb_posts, kb_stops, kb_ups, kb_last>>

\* everything but the edge and the keyboard's input channel and table
nonptvars == <<sysvars, waiting, wait_chan, stop_waiter, tmvars, restvars>>

\* Sender::try_send on a bounded(cap) channel: Full drops the message
TrySend(ch, m, cap) == IF Len(ch) < cap THEN Append(ch, m) ELSE ch

\* msg.into() for TInto = TFrom = KeyboardMessage
into(msg) == msg

\* TerminalWidget::event for KeyDown / KeyUp: try_send on key_sender
FrontKey ==
    /\ p_source = "alive" /\ p_events < MaxEvents
    /\ \E m \in KeyboardMessage :
          /\ p_front' = TrySend(p_front, m, QueueCap)
          /\ p_last' = <<m>>
    /\ p_events' = p_events + 1
    /\ UNCHANGED <<p_at, p_msg, p_source, p_target, key_msgs, key_states>>
    /\ UNCHANGED <<kbhist, nonptvars>>

\* the front end going away: every Sender of its channel is dropped
SourceDrop ==
    /\ p_source = "alive"
    /\ p_source' = "gone"
    /\ UNCHANGED <<p_front, p_at, p_msg, p_target, p_events, p_last, key_msgs,
                   key_states>>
    /\ UNCHANGED <<kbhist, nonptvars>>

\* the Keyboard dropped: its worker leaves the loop and drops the Receiver
TargetDrop ==
    /\ p_target = "alive"
    /\ p_target' = "gone"
    /\ UNCHANGED <<p_front, p_at, p_msg, p_source, p_events, p_last, key_msgs,
                   key_states>>
    /\ UNCHANGED <<kbhist, nonptvars>>

\* run: input_receiver.recv() returning a message, or Err once the channel
\* is empty and disconnected; it blocks otherwise
AdapterRecv ==
    /\ p_at = "recv"
    /\ IF p_front # <<>>
       THEN /\ p_msg' = <<Head(p_front)>>
            /\ p_front' = Tail(p_front)
            /\ p_at' = "send"
       ELSE /\ p_source = "gone"
            /\ p_at' = "exited"
            /\ UNCHANGED <<p_msg, p_front>>
    /\ UNCHANGED <<p_source, p_target, p_events, p_last, key_msgs, key_states>>
    /\ UNCHANGED <<kbhist, nonptvars>>

\* run: output_sender.try_send(msg.into()); only Disconnected ends the loop
AdapterSend ==
    /\ p_at = "send"
    /\ IF p_target = "gone"
       THEN /\ p_at' = "exited"
            /\ UNCHANGED key_msgs
       ELSE /\ key_msgs' = TrySend(key_msgs, into(p_msg[1]), QueueCap)
            /\ p_at' = "recv"
    /\ p_msg' = <<>>
    /\ UNCHANGED <<p_front, p_source, p_target, p_events, p_last, key_states>>
    /\ UNCHANGED <<kbhist, nonptvars>>

\* the keyboard worker while the Keyboard lives
PortWorker == p_target = "alive" /\ KbWorker

InitPort == Init /\ rom = "ClsJp" /\ quirks = {}

NextPort ==
    \/ FrontKey
    \/ SourceDrop
    \/ TargetDrop
    \/ AdapterRecv
    \/ AdapterSend
    \/ PortWorker

\* the adapter and the worker keep running; the front end need not act
SpecPort ==
    /\ InitPort /\ [][NextPort]_vars
    /\ WF_vars(AdapterRecv) /\ WF_vars(AdapterSend) /\ WF_vars(PortWorker)

-----------------------------------------------------------------------------
RegPairs == { <<0, 1>>, <<1, 1>>, <<0, 15>>, <<15, 0>>, <<15, 15>> }

\* 8XY0..8XY7 and 8XYE for the register pairs, and 7XKK
InstrWords ==
    { \h8000 + p[1] * 256 + p[2] * 16 + n : p \in RegPairs, n \in (0..7) \cup {14} }
    \cup { \h7000 + x * 256 + kk : x \in {0, 15}, kk \in {1, 255} }

ByteSamples == {0, 1, 2, 128, 255}

InitInstr ==
    /\ rom = "Instr"
    /\ quirks \in SUBSET Quirks
    /\ pc = RESERVED_SIZE
    /\ \E w \in InstrWords, a \in ByteSamples, b \in ByteSamples, c \in ByteSamples :
          /\ memory = load_image_bytes(NewMemory, ImageBytes(<<w>>))
          /\ v = [r \in 0..15 |-> IF r = VF THEN c
                                  ELSE IF r = x_of(w) THEN a
                                  ELSE IF r = y_of(w) THEN b ELSE 0]
    /\ i = 0
    /\ stack = <<>>
    /\ pixels = pixel_buffer
    /\ delay_timer = 0
    /\ sound_timer = 0
    /\ key_states = [k \in Keys |-> Up]
    /\ waiting = FALSE
    /\ wait_chan = <<>>
    /\ stop_waiter = 0
    /\ stop = FALSE
    /\ cpu_at = "exec"
    /\ result = "Running"
    /\ steps = 0
    /\ last_instr = None
    /\ callsite = <<>>
    /\ host_at = "idle"
    /\ stops_left = 0
    /\ keys_left = 0
    /\ key_msgs = <<>>
    /\ kb_at = "idle"
    /\ kb_ret = -2
    /\ kb_seen = <<>>
    /\ kb_calls = 0
    /\ kb_posts = 0
    /\ kb_stops = 0
    /\ kb_ups = {}
    /\ kb_last = [k \in 0..15 |-> "Up"]
    /\ TimerNew
    /\ PortNew
    /\ RestIdle

NextInstr == ExecuteNextInst

SpecInstr == InitInstr /\ [][NextInstr]_vars

-----------------------------------------------------------------------------
(* parse_opcode and the generator's opcode applied to each other's output:   *)
(* a run starts from a 16-bit word or from an assembler Opcode.              *)

\* everything but the decode / encode run
nondcvars == <<sysvars, key_states, waiting, wait_chan, stop_waiter, kbvars,
               tmvars, ptvars, gnvars, asvars, lkvars>>

AddrOps == {"Jump", "Call", "LoadI", "JumpV0"}
RegImmOps == {"SkipEqImm", "SkipNotEqImm", "LoadImm", "AddImm", "Random"}
RegRegOps == {"SkipEqReg", "LoadReg", "OrReg", "AndReg", "XorReg", "AddReg",
              "SubReg", "ShiftRight", "SubN", "ShiftLeft", "SkipNotEqReg"}
RegOps == {"SkipKeyPressed", "SkipKeyNotPressed", "LoadDelayTimer",
           "WaitKeyPress", "SetDelayTimer", "SetSoundTimer", "AddI",
           "LoadSprite", "LoadBCD", "SaveRegs", "LoadRegs"}

\* every Opcode with registers and nibble in R, byte in B and an immediate
\* address in A
Opcodes(R, B, A) ==
    { Opcode(op, 0, 0, 0, 0, NoAddr) : op \in {"ClearDisplay", "Return"} }
    \cup { Opcode(op, 0, 0, 0, 0, Imm(a)) : op \in AddrOps, a \in A }
    \cup { Opcode(op, r, 0, 0, b, NoAddr) : op \in RegImmOps, r \in R, b \in B }
    \cup { Opcode(op, r1, r2, 0, 0, NoAddr) : op \in RegRegOps, r1 \in R, r2 \in R }
    \cup { Opcode("Draw", r1, r2, n, 0, NoAddr) : r1 \in R, r2 \in R, n \in R }
    \cup { Opcode(op, r, 0, 0, 0, NoAddr) : op \in RegOps, r \in R }

\* the Opcode with the name and the operands of an Instr
OpcodeOf(in) ==
    Opcode(in.op, in.x, in.y, in.n, in.kk,
           IF in.op \in AddrOps THEN Imm(in.nnn) ELSE NoAddr)

\* the Instr with the name and the operands of an Opcode
InstrOf(o) ==
    Instr(o.op, o.r1, o.r2, o.n, o.b, IF o.a.kind = "Imm" THEN o.a.imm ELSE 0)

\* parse_opcode on the input word
DecodeWord ==
    /\ d_at = "word"
    /\ d_instr' = parse_opcode(d_word)
    /\ d_at' = "decoded"
    /\ UNCHANGED <<d_word, d_op, d_code>>
    /\ UNCHANGED nondcvars

\* the generator's opcode on the Opcode named like the decoded Instr
EncodeInstr ==
    /\ d_at = "decoded" /\ d_instr # None
    /\ d_op' = OpcodeOf(d_instr)
    /\ d_code' = opcode(OpcodeOf(d_instr), NoLabels).code
    /\ d_at' = "reencoded"
    /\ UNCHANGED <<d_word, d_instr>>
    /\ UNCHANGED nondcvars

\* the generator's opcode on the input Opcode
EncodeOpcode ==
    /\ d_at = "opcode"
    /\ d_code' = opcode(d_op, NoLabels).code
    /\ d_at' = "encoded"
    /\ UNCHANGED <<d_word, d_op, d_instr>>
    /\ UNCHANGED nondcvars

\* parse_opcode on the emitted word
DecodeCode ==
    /\ d_at = "encoded"
    /\ d_instr' = parse_opcode(d_code)
    /\ d_at' = "redecoded"
    /\ UNCHANGED <<d_word, d_op, d_code>>
    /\ UNCHANGED nondcvars

InitCodec ==
    /\ InitSys /\ rom = "ClsJp" /\ quirks = {}
    /\ GenIdle /\ AsmIdle /\ LockIdle
    /\ d_instr = None
    /\ d_code = 0
    /\ \/ /\ d_at = "word"
          /\ d_word \in 0..(U16 - 1)
          /\ d_op = Opcode("ClearDisplay", 0, 0, 0, 0, NoAddr)
       \/ /\ d_at = "opcode"
          /\ d_op \in Opcodes(0..15, 0..255, 0..4095)
          /\ d_word = 0

NextCodec ==
    \/ DecodeWord
    \/ EncodeInstr
    \/ EncodeOpcode
    \/ DecodeCode

SpecCodec == InitCodec /\ [][NextCodec]_vars

-----------------------------------------------------------------------------
(* generate (generator.rs): the labels pass over the line list, then the     *)
(* opcodes pass, one step per iteration of each for loop.                    *)

\* everything but the generate call
nongnvars == <<sysvars, key_states, waiting, wait_chan, stop_waiter, kbvars,
               tmvars, ptvars, dcvars, asvars, lkvars>>

MaxLines == 3

\* 0xE00 bytes of data: what follows it from ORIGIN is at 0x1000
BigData == [k \in 1..3584 |-> 0]

GenLabelNames == {"", "start", "end"}

GenInstrs ==
    { AsmNone, AsmData(<<1, 2, 3>>), AsmData(BigData),
      AsmOpcode(Opcode("LoadImm", 0, 0, 0, 42, NoAddr)),
      AsmOpcode(Opcode("Jump", 0, 0, 0, 0, LabelRef("start"))),
      AsmOpcode(Opcode("Call", 0, 0, 0, 0, LabelRef("end"))),
      AsmOpcode(Opcode("LoadI", 0, 0, 0, 0, LabelRef("start"))),
      AsmOpcode(Opcode("JumpV0", 0, 0, 0, 0, LabelRef("end"))) }

GenLines == { Line(l, in) : l \in GenLabelNames, in \in GenInstrs }

LineLists(max) == UNION { [1..n -> GenLines] : n \in 0..max }

\* one iteration of the for loop of labels, which overwrites a label
\* defined before instead of failing
GenLabelsStep_Overwrite ==
    /\ g_at = "labels" /\ g_k <= Len(g_lines)
    /\ LET l == g_lines[g_k] IN
       /\ g_labels' = IF l.label # "" THEN insert(g_labels, l.label, g_addr)
                      ELSE g_labels
       /\ g_addr' = g_addr + size(l)
       /\ g_k' = g_k + 1
       /\ UNCHANGED <<g_at, g_err>>
    /\ UNCHANGED <<g_lines, g_out>>
    /\ UNCHANGED nongnvars

\* one iteration of the for loop of labels
GenLabelsStep ==
    /\ g_at = "labels" /\ g_k <= Len(g_lines)
    /\ LET l == g_lines[g_k] IN
       IF l.label # "" /\ l.label \in DOMAIN g_labels
       THEN /\ g_at' = "failed"
            /\ g_err' = "duplicate label"
            /\ UNCHANGED <<g_k, g_addr, g_labels>>
       ELSE /\ g_labels' = IF l.label # "" THEN insert(g_labels, l.label, g_addr)
                           ELSE g_labels
            /\ g_addr' = g_addr + size(l)
            /\ g_k' = g_k + 1
            /\ UNCHANGED <<g_at, g_err>>
    /\ UNCHANGED <<g_lines, g_out>>
    /\ UNCHANGED nongnvars

\* labels returns Ok(labels) and generate calls opcodes
GenLabelsDone ==
    /\ g_at = "labels" /\ g_k > Len(g_lines)
    /\ g_at' = "opcodes"
    /\ g_k' = 1
    /\ UNCHANGED <<g_lines, g_addr, g_labels, g_out, g_err>>
    /\ UNCHANGED nongnvars

\* one iteration of the for loop of opcodes
GenOpcodesStep ==
    /\ g_at = "opcodes" /\ g_k <= Len(g_lines)
    /\ LET in == g_lines[g_k].instr
           r == opcode(in.op, g_labels)
       IN
       IF in.kind = "Opcode" /\ ~r.ok
       THEN /\ g_at' = "failed"
            /\ g_err' = r.err
            /\ UNCHANGED <<g_k, g_out>>
       ELSE /\ g_out' = IF in.kind = "Data" THEN g_out \o in.data
                        ELSE IF in.kind = "Opcode" THEN g_out \o to_be_bytes(r.code)
                        ELSE g_out
            /\ g_k' = g_k + 1
            /\ UNCHANGED <<g_at, g_err>>
    /\ UNCHANGED <<g_lines, g_addr, g_labels>>
    /\ UNCHANGED nongnvars

\* opcodes, and with it generate, returns Ok(())
GenOpcodesDone ==
    /\ g_at = "opcodes" /\ g_k > Len(g_lines)
    /\ g_at' = "done"
    /\ UNCHANGED <<g_lines, g_k, g_addr, g_labels, g_out, g_err>>
    /\ UNCHANGED nongnvars

\* generate(lines, w) called with an empty w
InitGen ==
    /\ InitSys /\ rom = "ClsJp" /\ quirks = {}
    /\ CodecIdle /\ AsmIdle /\ LockIdle
    /\ g_at = "labels"
    /\ g_lines \in LineLists(MaxLines)
    /\ g_k = 1
    /\ g_addr = ORIGIN
    /\ g_labels = NoLabels
    /\ g_out = <<>>
    /\ g_err = ""

NextGen ==
    \/ GenLabelsStep
    \/ GenLabelsDone
    \/ GenOpcodesStep
    \/ GenOpcodesDone

SpecGen == InitGen /\ [][NextGen]_vars

-----------------------------------------------------------------------------
(* The assembler's parser (parser.rs).  A source text is a sequence of       *)
(* one-character strings.  A parser applied to an input returns nom's        *)
(* IResult as a record: ok, the remaining input and the value; a failed      *)
(* alternative leaves the input where it was.                                *)

PR(rest, val) == [ok |-> TRUE, rest |-> rest, val |-> val]
PFail == [ok |-> FALSE, rest |-> <<>>, val |-> 0]

Drop(s, n) == SubSeq(s, n + 1, Len(s))

\* the number of leading characters of s that are in C
RECURSIVE Span(_, _)
Span(s, C) == IF s # <<>> /\ Head(s) \in C THEN 1 + Span(Tail(s), C) ELSE 0

\* the number of leading characters of s that are not in C
RECURSIVE SpanNot(_, _)
SpanNot(s, C) == IF s # <<>> /\ Head(s) \notin C THEN 1 + SpanNot(Tail(s), C) ELSE 0

RECURSIVE Str(_)
Str(s) == IF s = <<>> THEN "" ELSE Head(s) \o Str(Tail(s))

LowerCase == << "a", "b", "c", "d", "e", "f", "g", "h", "i", "j", "k", "l", "m",
                "n", "o", "p", "q", "r", "s", "t", "u", "v", "w", "x", "y", "z" >>
UpperCase == << "A", "B", "C", "D", "E", "F", "G", "H", "I", "J", "K", "L", "M",
                "N", "O", "P", "Q", "R", "S", "T", "U", "V", "W", "X", "Y", "Z" >>
HexChars == << "0", "1", "2", "3", "4", "5", "6", "7", "8", "9",
               "a", "b", "c", "d", "e", "f" >>

to_lower(c) ==
    IF \E k \in 1..Len(UpperCase) : UpperCase[k] = c
    THEN LowerCase[CHOOSE k \in 1..Len(UpperCase) : UpperCase[k] = c]
    ELSE c

Digits == { HexChars[k] : k \in 1..10 }
BinDigits == {"0", "1"}
HexDigits == { c \in { HexChars[k] : k \in 1..16 } \cup { UpperCase[k] : k \in 1..6 } : TRUE }
Alphabetic == { LowerCase[k] : k \in 1..26 } \cup { UpperCase[k] : k \in 1..26 }
Spaces == {" ", "\t"}

\* char::to_digit
to_digit(c) == (CHOOSE k \in 1..16 : HexChars[k] = to_lower(c)) - 1

\* the number written by the digits ds in the given radix
RECURSIVE from_str_radix(_, _)
from_str_radix(ds, radix) ==
    IF ds = <<>> THEN 0
    ELSE from_str_radix(SubSeq(ds, 1, Len(ds) - 1), radix) * radix + to_digit(ds[Len(ds)])

\* F applied to the value of x, which is computed once
With(x, F(_)) == CHOOSE y \in { F(r) : r \in {x} } : TRUE

\* preceded(first, P): P on what the first parser left
Then(first, P(_)) == With(first, LAMBDA r : IF r.ok THEN P(r.rest) ELSE PFail)

\* terminated(first, P): the first value, after P consumed what follows
Keep(first, P(_)) ==
    With(first, LAMBDA r :
        IF r.ok THEN With(P(r.rest), LAMBDA q : IF q.ok THEN PR(q.rest, r.val) ELSE PFail)
        ELSE PFail)

\* map(p, f): the value of a successful parser replaced by f of it
Map(p, F(_)) == With(p, LAMBDA r : IF r.ok THEN PR(r.rest, F(r.val)) ELSE PFail)

\* alt of two parsers and of a tuple of parsers: the first that succeeds
Alt2(first, second) == With(first, LAMBDA a : IF a.ok THEN a ELSE second)
AltSeq(alts) ==
    With(alts, LAMBDA rs :
        IF \E k \in 1..Len(rs) : rs[k].ok
        THEN rs[CHOOSE k \in 1..Len(rs) : rs[k].ok /\ \A j \in 1..(k - 1) : ~rs[j].ok]
        ELSE PFail)

tag(t, s) ==
    IF Len(s) >= Len(t) /\ SubSeq(s, 1, Len(t)) = t THEN PR(Drop(s, Len(t)), t) ELSE PFail

tag_no_case(t, s) ==
    IF Len(s) >= Len(t) /\ [k \in 1..Len(t) |-> to_lower(s[k])] = t
    THEN PR(Drop(s, Len(t)), t)
    ELSE PFail

\* take one or more characters of C
Take1(s, C) ==
    LET n == Span(s, C) IN IF n >= 1 THEN PR(Drop(s, n), SubSeq(s, 1, n)) ELSE PFail

space0(s) == PR(Drop(s, Span(s, Spaces)), <<>>)
space1(s) == Take1(s, Spaces)
digit1(s) == Take1(s, Digits)
hex_digit1(s) == Take1(s, HexDigits)
bin_digit1(s) == Take1(s, BinDigits)

line_ending(s) == Alt2(tag(<<"\n">>, s), tag(<<"\r", "\n">>, s))

\* map_res(digits, from_str_radix): an overflow of the integer type is an error
MapRes(digits, radix, max) ==
    With(digits, LAMBDA d :
        IF d.ok /\ from_str_radix(d.val, radix) <= max
        THEN PR(d.rest, from_str_radix(d.val, radix))
        ELSE PFail)

hex_u16(s) == MapRes(Then(tag(<<"0", "x">>, s), hex_digit1), 16, U16 - 1)
dec_u16(s) == MapRes(digit1(s), 10, U16 - 1)
bin_u16(s) == MapRes(Then(tag(<<"0", "b">>, s), bin_digit1), 2, U16 - 1)
u16(s) == AltSeq(<<hex_u16(s), bin_u16(s), dec_u16(s)>>)

hex_u8(s) == MapRes(Then(tag(<<"0", "x">>, s), hex_digit1), 16, U8 - 1)
dec_u8(s) == MapRes(digit1(s), 10, U8 - 1)
bin_u8(s) == MapRes(Then(tag(<<"0", "b">>, s), bin_digit1), 2, U8 - 1)
u8(s) == AltSeq(<<hex_u8(s), bin_u8(s), dec_u8(s)>>)

label(s) ==
    IF s # <<>> /\ Head(s) \in Alphabetic
    THEN LET n == 1 + Span(Tail(s), Alphabetic \cup Digits \cup {"_"})
         IN  PR(Drop(s, n), SubSeq(s, 1, n))
    ELSE PFail

arg_sep(s) == Then(Then(space0(s), LAMBDA x : tag(<<",">>, x)), space0)

\* not_line_ending
not_line_ending(s) == PR(Drop(s, SpanNot(s, {"\n", "\r"})), <<>>)

comment(s) == Then(tag(<<"#">>, s), not_line_ending)

\* separated_list1(arg_sep, u8), after its first element
RECURSIVE DataMore(_, _)
DataMore(s, acc) ==
    With(Then(arg_sep(s), u8), LAMBDA e :
        IF e.ok THEN DataMore(e.rest, Append(acc, e.val)) ELSE PR(s, acc))

data(s) ==
    Map(With(u8(s), LAMBDA f : IF f.ok THEN DataMore(f.rest, <<f.val>>) ELSE PFail),
        AsmData)

imm_addr(s) == Map(u16(s), Imm)
label_ref(s) == Map(label(s), LAMBDA l : LabelRef(Str(l)))

\* parser.rs addr
asm_addr(s) == Alt2(imm_addr(s), label_ref(s))

oc_noarg(s) ==
    Alt2(Map(tag_no_case(<<"c", "l", "s">>, s),
             LAMBDA t : Opcode("ClearDisplay", 0, 0, 0, 0, NoAddr)),
         Map(tag_no_case(<<"r", "e", "t">>, s),
             LAMBDA t : Opcode("Return", 0, 0, 0, 0, NoAddr)))

\* map(p, Opcode::<name>) for a parser of an Addr
MapAddr(p, name) == Map(p, LAMBDA a : Opcode(name, 0, 0, 0, 0, a))

\* tuple((tag_no_case(k1), space1, tag_no_case(k2), arg_sep))
Kw2(k1, k2, s) ==
    Then(Then(Then(tag_no_case(k1, s), space1), LAMBDA x : tag_no_case(k2, x)), arg_sep)

oc_addr(s) ==
    LET jp == MapAddr(Then(Then(tag_no_case(<<"j", "p">>, s), space1), asm_addr), "Jump")
        call == MapAddr(Then(Then(tag_no_case(<<"c", "a", "l", "l">>, s), space1), asm_addr), "Call")
        ldi == MapAddr(Then(Kw2(<<"l", "d">>, <<"i">>, s), asm_addr), "LoadI")
        jpv0 == MapAddr(Then(Kw2(<<"j", "p">>, <<"v", "0">>, s), asm_addr), "JumpV0")
    IN  AltSeq(<<jp, call, ldi, jpv0>>)

\* take_while_m_n(1, 1, is_hex_digit) and u8::from_str_radix(_, 16)
hex_digit(s) ==
    IF s # <<>> /\ Head(s) \in HexDigits THEN PR(Tail(s), to_digit(Head(s))) ELSE PFail

vreg(s) == Then(tag_no_case(<<"v">>, s), hex_digit)

\* separated_pair(p, arg_sep, q) given the result of p
SepPair(p, Q(_)) ==
    With(p, LAMBDA a :
        IF a.ok THEN Map(Then(arg_sep(a.rest), Q), LAMBDA b : <<a.val, b>>) ELSE PFail)

\* parser.rs reg_imm and reg_reg
asm_reg_imm(s) == SepPair(Then(space1(s), vreg), u8)
asm_reg_reg(s) == SepPair(Then(space1(s), vreg), vreg)

RegImmTable ==
    << <<<<"s", "e">>, "SkipEqImm">>, <<<<"s", "n", "e">>, "SkipNotEqImm">>,
       <<<<"l", "d">>, "LoadImm">>, <<<<"a", "d", "d">>, "AddImm">>,
       <<<<"r", "n", "d">>, "Random">> >>

oc_reg_imm(s) ==
    AltSeq([k \in 1..Len(RegImmTable) |->
        Map(Then(tag_no_case(RegImmTable[k][1], s), asm_reg_imm),
            LAMBDA rb : Opcode(RegImmTable[k][2], rb[1], 0, 0, rb[2], NoAddr))])

RegRegTable ==
    << <<<<"s", "e">>, "SkipEqReg">>, <<<<"l", "d">>, "LoadReg">>,
       <<<<"o", "r">>, "OrReg">>, <<<<"a", "n", "d">>, "AndReg">>,
       <<<<"x", "o", "r">>, "XorReg">>, <<<<"a", "d", "d">>, "AddReg">>,
       <<<<"s", "u", "b">>, "SubReg">>, <<<<"s", "h", "r">>, "ShiftRight">>,
       <<<<"s", "u", "b", "n">>, "SubN">>, <<<<"s", "h", "l">>, "ShiftLeft">>,
       <<<<"s", "n", "e">>, "SkipNotEqReg">> >>

oc_reg_reg(s) ==
    AltSeq([k \in 1..Len(RegRegTable) |->
        Map(Then(tag_no_case(RegRegTable[k][1], s), asm_reg_reg),
            LAMBDA rr : Opcode(RegRegTable[k][2], rr[1], rr[2], 0, 0, NoAddr))])

\* the alternatives of oc_reg in order; the shape "kv" is keyword, space1,
\* vreg; "kvk" is keyword, space1, vreg, arg_sep, keyword; "kkv" is keyword,
\* space1, keyword, arg_sep, vreg
RegTable ==
    << <<"kv", <<"s", "k", "p">>, <<>>, "SkipKeyPressed">>,
       <<"kv", <<"s", "k", "p", "n">>, <<>>, "SkipKeyNotPressed">>,
       <<"kvk", <<"l", "d">>, <<"d", "t">>, "LoadDelayTimer">>,
       <<"kvk", <<"l", "d">>, <<"k">>, "WaitKeyPress">>,
       <<"kkv", <<"l", "d">>, <<"d", "t">>, "SetDelayTimer">>,
       <<"kkv", <<"l", "d">>, <<"s", "t">>, "SetSoundTimer">>,
       <<"kkv", <<"a", "d", "d">>, <<"i">>, "AddI">>,
       <<"kkv", <<"l", "d">>, <<"f">>, "LoadSprite">>,
       <<"kkv", <<"l", "d">>, <<"b">>, "LoadBCD">>,
       <<"kkv", <<"l", "d">>, <<"[", "i", "]">>, "SaveRegs">>,
       <<"kvk", <<"l", "d">>, <<"[", "i", "]">>, "LoadRegs">> >>

\* one alternative of oc_reg
RegRow(row, s) ==
    CASE row[1] = "kv" -> Then(Then(tag_no_case(row[2], s), space1), vreg)
      [] row[1] = "kvk" ->
           Keep(Then(Then(tag_no_case(row[2], s), space1), vreg),
                LAMBDA x : Then(arg_sep(x), LAMBDA y : tag_no_case(row[3], y)))
      [] row[1] = "kkv" -> Then(Kw2(row[2], row[3], s), vreg)

oc_reg(s) ==
    AltSeq([k \in 1..Len(RegTable) |->
        Map(RegRow(RegTable[k], s),
            LAMBDA r : Opcode(RegTable[k][4], r, 0, 0, 0, NoAddr))])

\* verify(u8, |&v| v < 16)
nibble(s) == With(u8(s), LAMBDA r : IF r.ok /\ r.val < 16 THEN r ELSE PFail)

oc_special(s) ==
    Map(SepPair(Then(tag_no_case(<<"d", "r", "w">>, s), asm_reg_reg), nibble),
        LAMBDA rn : Opcode("Draw", rn[1][1], rn[1][2], rn[2], 0, NoAddr))

\* parser.rs opcode
asm_opcode(s) ==
    Map(AltSeq(<<oc_noarg(s), oc_addr(s), oc_reg_imm(s), oc_reg_reg(s),
                 oc_reg(s), oc_special(s)>>),
        AsmOpcode)

instr(s) == Keep(Alt2(data(s), asm_opcode(s)), space0)

\* opt(p): None, and the input left where it was, when p fails
Opt(p, s, none) == With(p, LAMBDA r : IF r.ok THEN r ELSE PR(s, none))

maybe_label(s) == Opt(Map(Keep(label(s), LAMBDA x : tag(<<":">>, x)), Str), s, "")

maybe_instr(s) == Opt(Keep(Then(space1(s), instr), space0), s, AsmNone)

maybe_comment(s) == Opt(comment(s), s, <<>>)

line(s) ==
    With(maybe_label(s), LAMBDA l :
        With(maybe_instr(l.rest), LAMBDA in :
            Map(maybe_comment(in.rest), LAMBDA c : Line(l.val, in.val))))

\* separated_list0(line_ending, line), after its first element
RECURSIVE LinesMore(_, _)
LinesMore(s, acc) ==
    With(Then(line_ending(s), line), LAMBDA e :
        IF e.ok THEN LinesMore(e.rest, Append(acc, e.val)) ELSE PR(s, acc))

lines(s) == With(line(s), LAMBDA f : LinesMore(f.rest, <<f.val>>))

\* all_consuming(lines)
parse_lines(s) == With(lines(s), LAMBDA r : IF r.rest = <<>> THEN r ELSE PFail)

-----------------------------------------------------------------------------
(* c8asm's main: parse_file on the source text, then generate on its lines.  *)

\* everything but the assembler run
nonasvars == <<sysvars, key_states, waiting, wait_chan, stop_waiter, kbvars,
               tmvars, ptvars, dcvars, lkvars>>

Leads == { <<" ">>, <<>> }
LabelDefs == { <<>>, <<"s", "t", "a", "r", "t", ":">> }
JpV0Forms == { <<"J", "P", " ", "V", "0", ",", " ">>, <<"j", "p", " ", "v", "0", " ", ",">> }
AddrForms ==
    { <<"J", "P", " ">>, <<"j", "p", " ">>, <<"C", "A", "L", "L", " ">>,
      <<"L", "D", " ", "I", ",", " ">> } \cup JpV0Forms
AddrLiterals == { <<"0", "x", "3", "0", "0">>, <<"7", "6", "8">>, <<"0", "b", "1", "1">> }
Operands == AddrLiterals \cup { <<"s", "t", "a", "r", "t">>, <<"0", "x", "1", "0", "0", "0", "0">> }
Tails == { <<>>, <<" ", "#", "c">> }

\* whole programs, using every group of alternatives of opcode
Programs ==
    { <<"s", "t", "a", "r", "t", ":", " ", "L", "D", " ", "V", "0", ",", " ", "0", "x", "2", "A", "\n",
        " ", "J", "P", " ", "s", "t", "a", "r", "t">>,
      <<" ", "C", "L", "S", "\n", " ", "a", "d", "d", " ", "v", "1", ",", "v", "F", "\n",
        " ", "L", "D", " ", "V", "3", ",", " ", "K", "\n",
        " ", "D", "R", "W", " ", "V", "1", ",", " ", "V", "2", ",", " ", "5", "\n",
        " ", "1", ",", " ", "0", "x", "F", "F", "\n", "#", "c">>,
      <<"J", "P", " ", "s", "t", "a", "r", "t">> }

SourceTexts ==
    { d \o l \o f \o o \o t : d \in LabelDefs, l \in Leads, f \in AddrForms,
                               o \in Operands, t \in Tails }
    \cup Programs

\* parse_file, and on success the call of generate on its lines
ParseFile ==
    /\ a_at = "text"
    /\ \E r \in {parse_lines(a_text)} :
           IF r.ok
           THEN /\ a_at' = "parsed"
                /\ g_at' = "labels"
                /\ g_lines' = r.val
                /\ g_k' = 1
                /\ g_addr' = ORIGIN
           ELSE /\ a_at' = "failed"
                /\ UNCHANGED <<g_at, g_lines, g_k, g_addr>>
    /\ UNCHANGED <<a_text, g_labels, g_out, g_err>>
    /\ UNCHANGED nonasvars

InitAsm ==
    /\ InitSys /\ rom = "ClsJp" /\ quirks = {}
    /\ CodecIdle /\ GenIdle /\ LockIdle
    /\ a_at = "text"
    /\ a_text \in SourceTexts

NextAsm ==
    \/ ParseFile
    \/ GenLabelsStep
    \/ GenLabelsDone
    \/ GenOpcodesStep
    \/ GenOpcodesDone

SpecAsm == InitAsm /\ [][NextAsm]_vars

-----------------------------------------------------------------------------
(* The Keyboard lock by lock: the worker thread of Keyboard::new and the     *)
(* interpreter thread calling is_key_down and wait_for_key_press, each step  *)
(* one lock acquisition, one critical section or one channel operation.      *)

MaxLockPosts == 2
MaxLockCalls == 2
MaxLockStops == 1

\* everything but the two threads around the Keyboard's locks
nonlkvars == <<sysvars, key_states, waiting, wait_chan, stop_waiter, kbvars,
               tmvars, ptvars, dcvars, gnvars, asvars>>

\* what the interpreter's side leaves alone
lkworker == <<lk_wk, lk_msg, lk_msgs, lk_posts>>

\* what the worker's side leaves alone
lkinterp == <<lk_in, lk_key, lk_ret, lk_calls>>

\* A front end sends one KeyboardMessage on the input port
LockPost ==
    /\ lk_posts < MaxLockPosts
    /\ lk_posts' = lk_posts + 1
    /\ \E m \in KeyboardMessage : lk_msgs' = Append(lk_msgs, m)
    /\ UNCHANGED <<lk_rw, lk_mx, lk_wk, lk_msg, lk_keys, lk_waiting, lk_chan,
                   lk_stop, lk_stops, lkinterp>>
    /\ UNCHANGED nonlkvars

\* worker, select!: recv(receiver) -> msg
WorkerRecv ==
    /\ lk_wk = "select"
    /\ lk_msgs # <<>>
    /\ lk_msg' = Head(lk_msgs)
    /\ lk_msgs' = Tail(lk_msgs)
    /\ lk_wk' = "write"
    /\ UNCHANGED <<lk_rw, lk_mx, lk_keys, lk_waiting, lk_chan, lk_stop,
                   lk_posts, lk_stops, lkinterp>>
    /\ UNCHANGED nonlkvars

\* worker: key_states_clone.write() granted, key_states[idx] = state
WorkerWrite ==
    /\ lk_wk = "write"
    /\ lk_rw = "free"
    /\ lk_rw' = "write"
    /\ lk_keys' = [lk_keys EXCEPT ![lk_msg.key] = lk_msg.state]
    /\ lk_wk' = IF lk_msg.state = Down THEN "lock" ELSE "release"
    /\ UNCHANGED <<lk_mx, lk_msg, lk_waiting, lk_chan, lk_stop, lk_msgs,
                   lk_posts, lk_stops, lkinterp>>
    /\ UNCHANGED nonlkvars

\* worker: wait_for_key_clone.lock() granted, with the write lock still held
WorkerLock ==
    /\ lk_wk = "lock"
    /\ lk_mx = "free"
    /\ lk_mx' = "worker"
    /\ lk_wk' = "notify"
    /\ UNCHANGED <<lk_rw, lk_msg, lk_keys, lk_waiting, lk_chan, lk_stop,
                   lk_msgs, lk_posts, lk_stops, lkinterp>>
    /\ UNCHANGED nonlkvars

\* worker: if *waiting { _ = wait_sender.try_send(key); *waiting = false }
WorkerNotify ==
    /\ lk_wk = "notify"
    /\ IF lk_waiting
       THEN /\ lk_chan' = IF Len(lk_chan) < 1 THEN Append(lk_chan, lk_msg.key)
                          ELSE lk_chan
            /\ lk_waiting' = FALSE
       ELSE UNCHANGED <<lk_chan, lk_waiting>>
    /\ lk_wk' = "release"
    /\ UNCHANGED <<lk_rw, lk_mx, lk_msg, lk_keys, lk_stop, lk_msgs, lk_posts,
                   lk_stops, lkinterp>>
    /\ UNCHANGED nonlkvars

\* worker: the guards go out of scope, the mutex guard first; back to select!
WorkerRelease ==
    /\ lk_wk = "release"
    /\ lk_mx' = IF lk_mx = "worker" THEN "free" ELSE lk_mx
    /\ lk_rw' = "free"
    /\ lk_msg' = NoMsg
    /\ lk_wk' = "select"
    /\ UNCHANGED <<lk_keys, lk_waiting, lk_chan, lk_stop, lk_msgs, lk_posts,
                   lk_stops, lkinterp>>
    /\ UNCHANGED nonlkvars

\* the interpreter calls is_key_down(key)
IsKeyDownCall ==
    /\ lk_in = "idle"
    /\ lk_calls < MaxLockCalls
    /\ lk_calls' = lk_calls + 1
    /\ \E k \in TestKeys : lk_key' = k
    /\ lk_in' = "read"
    /\ UNCHANGED <<lk_rw, lk_mx, lk_ret, lk_keys, lk_waiting, lk_chan,
                   lk_stop, lk_stops, lkworker>>
    /\ UNCHANGED nonlkvars

\* is_key_down: self.key_states.read() granted
IsKeyDownRead ==
    /\ lk_in = "read"
    /\ lk_rw = "free"
    /\ lk_rw' = "read"
    /\ lk_in' = "reading"
    /\ UNCHANGED <<lk_mx, lk_key, lk_ret, lk_calls, lk_keys, lk_waiting,
                   lk_chan, lk_stop, lk_stops, lkworker>>
    /\ UNCHANGED nonlkvars

\* is_key_down: ks[key as usize] == KeyState::Down, the read guard dropped
IsKeyDownReturn ==
    /\ lk_in = "reading"
    /\ lk_ret' = IF lk_keys[lk_key] = Down THEN "true" ELSE "false"
    /\ lk_rw' = "free"
    /\ lk_in' = "idle"
    /\ UNCHANGED <<lk_mx, lk_key, lk_calls, lk_keys, lk_waiting, lk_chan,
                   lk_stop, lk_stops, lkworker>>
    /\ UNCHANGED nonlkvars

\* the interpreter calls wait_for_key_press
WaitCall ==
    /\ lk_in = "idle"
    /\ lk_calls < MaxLockCalls
    /\ lk_calls' = lk_calls + 1
    /\ lk_in' = "latch"
    /\ UNCHANGED <<lk_rw, lk_mx, lk_key, lk_ret, lk_keys, lk_waiting, lk_chan,
                   lk_stop, lk_stops, lkworker>>
    /\ UNCHANGED nonlkvars

\* wait_for_key_press: self.wait_for_key.lock() granted
WaitLatch ==
    /\ lk_in = "latch"
    /\ lk_mx = "free"
    /\ lk_mx' = "interp"
    /\ lk_in' = "set"
    /\ UNCHANGED <<lk_rw, lk_key, lk_ret, lk_calls, lk_keys, lk_waiting,
                   lk_chan, lk_stop, lk_stops, lkworker>>
    /\ UNCHANGED nonlkvars

\* wait_for_key_press holding the latch's guard across its select!
WaitSet_KeepsGuard ==
    /\ lk_in = "set"
    /\ lk_waiting' = TRUE
    /\ lk_in' = "select"
    /\ UNCHANGED <<lk_rw, lk_mx, lk_key, lk_ret, lk_calls, lk_keys, lk_chan,
                   lk_stop, lk_stops, lkworker>>
    /\ UNCHANGED nonlkvars

\* wait_for_key_press: the latch set to true, the guard dropped at the end of
\* the statement
WaitSet ==
    /\ lk_in = "set"
    /\ lk_waiting' = TRUE
    /\ lk_mx' = "free"
    /\ lk_in' = "select"
    /\ UNCHANGED <<lk_rw, lk_key, lk_ret, lk_calls, lk_keys, lk_chan, lk_stop,
                   lk_stops, lkworker>>
    /\ UNCHANGED nonlkvars

\* wait_for_key_press, the select!: None from stop_waiter_receiver, or the
\* key from wait_receiver; either arm when both are ready
WaitSelect ==
    /\ lk_in = "select"
    /\ \/ /\ lk_stop > 0
          /\ lk_stop' = lk_stop - 1
          /\ lk_ret' = "None"
          /\ UNCHANGED lk_chan
       \/ /\ lk_chan # <<>>
          /\ lk_chan' = Tail(lk_chan)
          /\ lk_ret' = "Some"
          /\ UNCHANGED lk_stop
    /\ lk_in' = "idle"
    /\ UNCHANGED <<lk_rw, lk_mx, lk_key, lk_calls, lk_keys, lk_waiting,
                   lk_stops, lkworker>>
    /\ UNCHANGED nonlkvars

\* KeyboardController::stop: a blocking send on the bounded(1) channel
LockInterrupt ==
    /\ lk_stops < MaxLockStops
    /\ lk_stop < 1
    /\ lk_stop' = lk_stop + 1
    /\ lk_stops' = lk_stops + 1
    /\ UNCHANGED <<lk_rw, lk_mx, lk_keys, lk_waiting, lk_chan, lkworker,
                   lkinterp>>
    /\ UNCHANGED nonlkvars

InitLock == InitSys /\ rom = "ClsJp" /\ quirks = {} /\ RestIdle

NextLock ==
    \/ LockPost
    \/ WorkerRecv
    \/ WorkerWrite
    \/ WorkerLock
    \/ WorkerNotify
    \/ WorkerRelease
    \/ IsKeyDownCall
    \/ IsKeyDownRead
    \/ IsKeyDownReturn
    \/ WaitCall
    \/ WaitLatch
    \/ WaitSet
    \/ WaitSelect
    \/ LockInterrupt

\* Both threads are scheduled: a step a thread can take for good is taken,
\* and a lock that stays free is granted to the thread waiting for it.
\* Nothing obliges the front end to send keys, the host to call stop, or the
\* interpreter to call the Keyboard, and the select! of wait_for_key_press
\* returns only when a channel has a message.
SpecLock ==
    /\ InitLock /\ [][NextLock]_vars
    /\ WF_vars(WorkerRecv)
    /\ WF_vars(WorkerWrite)
    /\ WF_vars(WorkerLock)
    /\ WF_vars(WorkerNotify)
    /\ WF_vars(WorkerRelease)
    /\ WF_vars(IsKeyDownRead)
    /\ WF_vars(IsKeyDownReturn)
    /\ WF_vars(WaitLatch)
    /\ WF_vars(WaitSet)

-----------------------------------------------------------------------------
(* Claims *)

\* A step in which the interpreter thread runs execute_next_inst
Executes == cpu_at = "exec" /\ steps' = steps + 1

\* ... and the instruction it decodes there is one of ops
ExecutesOp(ops) == Executes /\ Fetch(Cur).op \in ops

\* C1 (as stated): running the ROM 00E0 1200 with no stop signal, the loop
\* terminates with SelfJump once the second iteration has decoded JP 0x200.
C1_SelfJumpAfterTwo ==
    (rom = "ClsJp" /\ ~stop /\ steps >= 2) => result = "SelfJump"

\* C1 (amended): for the ROM 00E0 1200 every odd iteration executes CLS at
\* 0x200 and leaves PC = 0x202, every even iteration executes JP 0x200 at
\* 0x202 and leaves PC = 0x200; run never returns SelfJump and returns only
\* Ok, after the stop pin was raised.
C1_ClsJpLoops ==
    rom = "ClsJp" =>
        /\ result \in {"Running", "Ok"}
        /\ result = "Ok" => stop
        /\ pixels = {}
        /\ (steps % 2 = 1) =>
              last_instr = Instr("ClearDisplay", 0, 0, 0, 0, 0) /\ pc = 514
        /\ (steps > 0 /\ steps % 2 = 0) =>
              last_instr = Instr("Jump", 0, 0, 0, 0, 512) /\ pc = 512

C1_Witness ==
    rom = "ClsJp" /\ ~stop /\ steps = 4 /\ result = "Running" /\ pc = 512

\* C2: when execute_next_inst returns a SystemError, PC, V0..VF, I, the
\* stack, memory and the pixel buffer are as they were when the instruction
\* was fetched.
C2_ErrorLeavesState ==
    [][(result = "Running" /\ result' \in SystemError) =>
          /\ pc' = pc /\ v' = v /\ i' = i /\ stack' = stack
          /\ memory' = memory /\ pixels' = pixels]_vars

C2_Witness ==
    result = "Interrupted" /\ v[10] = 7 /\ last_instr.op = "WaitKeyPress"

\* C3: an instruction whose memory access falls outside the 4096 bytes (the
\* fetch, the DRW sprite read, the FX65 load, the FX55 save) ends the run
\* with MemoryReadOverflow, and never with a panic.
AccessOutOfRange ==
    LET in == Fetch(Cur) IN
    \/ in.op = "MemoryReadOverflow"
    \/ in.op = "Draw" /\ i + in.n > MEMORY_SIZE
    \/ in.op \in {"SaveRegs", "LoadRegs"} /\ i + in.x + 1 > MEMORY_SIZE

C3_OutOfRangeIsTypedError ==
    [][(Executes /\ AccessOutOfRange) =>
          result' = "MemoryReadOverflow"]_vars

\* C4 (as stated): after every successfully executed instruction PC lies in
\* [0x000, 0xFFE].
C4_PcInRange ==
    (steps >= 1 /\ result = "Running") => pc \in 0..4094

\* C4 (amended): an instruction executes successfully only when fetched from
\* a PC in [0x000, 0xFFE]; after it PC lies in [0x000, 0x10FE], and a fetch
\* at a PC above 0xFFE fails with MemoryReadOverflow.
C4_PcBoundedFetchChecked ==
    [][Executes =>
          IF pc > 4094
          THEN result' = "MemoryReadOverflow" /\ pc' = pc
          ELSE result' = "Running" => pc' \in 0..4350]_vars

C4_Witness ==
    last_instr.op = "JumpV0" /\ result = "Running" /\ pc = 4350

\* C5: the call stack always holds between 0 and 16 return addresses.
C5_StackDepth == Len(stack) \in 0..STACK_SIZE

C5_Witness == Len(stack) = STACK_SIZE /\ last_instr.op = "Call"

\* C6: a CALL executed with 16 entries on the stack fails with StackOverflow
\* and leaves the 16 entries; for the ROM of 17 CALL 0x202 words the first
\* 16 executed CALLs succeed and the 17th fails.
C6_SeventeenthCallOverflows ==
    [][/\ (ExecutesOp({"Call"}) /\ Len(stack) = 16) =>
             result' = "StackOverflow" /\ stack' = stack
       /\ (ExecutesOp({"Call"}) /\ rom = "Calls17") =>
             IF steps' <= 16
             THEN result' = "Running" /\ Len(stack') = steps'
             ELSE steps' = 17 /\ result' = "StackOverflow" /\ Len(stack') = 16]_vars

C6_Witness ==
    rom = "Calls17" /\ steps = 17 /\ result = "StackOverflow" /\ Len(stack) = 16

\* C7: a RET on an empty stack fails with StackUnderflow; otherwise it
\* continues at A + 2, where A is the address at which the matching CALL
\* (the innermost one not yet returned from) was executed, and the stack
\* depth is back to what it was before that CALL.
C7_ReturnAfterCall ==
    [][ExecutesOp({"Return"}) =>
          IF Len(stack) = 0
          THEN result' = "StackUnderflow"
          ELSE /\ result' = "Running"
               /\ pc' = callsite[Len(callsite)].addr + 2
               /\ Len(stack') = callsite[Len(callsite)].depth]_vars

C7_Witness ==
    /\ rom = "CallRet" /\ last_instr.op = "Return" /\ result = "Running"
    /\ steps = 3 /\ pc = 520 /\ Len(stack) = 1

\* C8: with x # F, 8XY4 leaves Vx = (Vx + Vy) mod 256 and VF = carry, 8XY5
\* leaves Vx = (Vx - Vy) mod 256 and VF = 1 iff Vx >= Vy, 8XY7 leaves
\* Vx = (Vy - Vx) mod 256 and VF = 1 iff Vy >= Vx, 7XKK leaves
\* Vx = (Vx + kk) mod 256; 7XKK and 8XY0..8XY3 leave VF unchanged.
C8_ArithmeticFlags ==
    [][(Executes /\ Fetch(Cur).x # VF) =>
          LET in == Fetch(Cur)
              vx == v[in.x]
              vy == v[in.y]
          IN /\ in.op = "AddReg" =>
                   /\ v'[in.x] = (vx + vy) % 256
                   /\ v'[VF] = IF vx + vy >= 256 THEN 1 ELSE 0
             /\ in.op = "SubReg" =>
                   /\ v'[in.x] = (vx - vy) % 256
                   /\ v'[VF] = IF vx >= vy THEN 1 ELSE 0
             /\ in.op = "SubN" =>
                   /\ v'[in.x] = (vy - vx) % 256
                   /\ v'[VF] = IF vy >= vx THEN 1 ELSE 0
             /\ in.op = "AddImm" =>
                   /\ v'[in.x] = (vx + in.kk) % 256
                   /\ v'[VF] = v[VF]
             /\ in.op \in {"LoadReg", "OrReg", "AndReg", "XorReg"} =>
                   v'[VF] = v[VF]]_vars

C8_Witness ==
    /\ last_instr.op = "SubN" /\ last_instr.x = 0 /\ last_instr.y = 1
    /\ v[0] = 127 /\ v[1] = 128 /\ v[VF] = 1

\* C9: 8XY4, 8XY5, 8XY6, 8XY7 and 8XYE executed with x = F leave the flag in
\* VF (carry, no borrow, or the bit shifted out of the source), not the
\* result.
ShiftSource(in) == IF SHIFT_READS_VX \in quirks THEN v[in.x] ELSE v[in.y]

C9_FlagWinsInVF ==
    [][(Executes /\ Fetch(Cur).x = VF) =>
          LET in == Fetch(Cur) IN
          /\ in.op = "AddReg" => v'[VF] = IF v[VF] + v[in.y] >= 256 THEN 1 ELSE 0
          /\ in.op = "SubReg" => v'[VF] = IF v[VF] >= v[in.y] THEN 1 ELSE 0
          /\ in.op = "SubN" => v'[VF] = IF v[in.y] >= v[VF] THEN 1 ELSE 0
          /\ in.op = "ShiftRight" => v'[VF] = ShiftSource(in) % 2
          /\ in.op = "ShiftLeft" => v'[VF] = ShiftSource(in) \div 128]_vars

\* C10: 8XY6 leaves Vx = source >> 1 and VF = the low bit of source, 8XYE
\* leaves Vx = (source << 1) mod 256 and VF = the high bit of source, where
\* source is Vy before the instruction (Vx with SHIFT_READS_VX), for every
\* destination x # F and every y, y = F included.
C10_ShiftsReadSource ==
    [][(Executes /\ Fetch(Cur).x # VF) =>
          LET in == Fetch(Cur) IN
          /\ in.op = "ShiftRight" =>
                /\ v'[in.x] = ShiftSource(in) \div 2
                /\ v'[VF] = ShiftSource(in) % 2
          /\ in.op = "ShiftLeft" =>
                /\ v'[in.x] = (ShiftSource(in) * 2) % 256
                /\ v'[VF] = ShiftSource(in) \div 128]_vars


\* C11: EX9E advances pc by 4 iff the key numbered Vx is Down and by 2
\* otherwise; EXA1 advances pc by 4 iff the key numbered Vx is not Down and by
\* 2 otherwise, for every Vx in 0..255 (so exactly one of the two skips).
KeyNumberedDown(b) == b \in Keys /\ key_states[b] = Down

C11_ExactlyOneSkips ==
    [][ExecutesOp({"SkipKeyPressed", "SkipKeyNotPressed"}) =>
         LET in == Fetch(Cur)
             skips == IF in.op = "SkipKeyPressed"
                      THEN KeyNumberedDown(v[in.x])
                      ELSE ~KeyNumberedDown(v[in.x])
         IN pc' = pc + (IF skips THEN 4 ELSE 2)]_vars

\* C12: DRW Vx, Vy, n XORs bit (7 - b) of memory[I + r] into the pixel at row
\* (Vy + r) mod 32 and the column derived from Vx + b (wrapped: (Vx + b) mod
\* 64; clipped: (Vx mod 64) + b, skipped past the right edge), leaves every
\* other pixel unchanged, and sets VF to 1 iff a pixel went from 1 to 0.
SpriteBitSet(r, b) == (MemByte(memory, i + r) \div (2 ^ (7 - b))) % 2 = 1

DrawColumn(x, b) ==
    IF DRAW_WRAPS_PIXELS \in quirks
    THEN (v[x] + b) % DISPLAY_WIDTH
    ELSE (v[x] % DISPLAY_WIDTH) + b

DrawHits(in, p) ==
    \E r \in 0..(in.n - 1), b \in 0..7 :
        /\ SpriteBitSet(r, b)
        /\ DrawColumn(in.x, b) < DISPLAY_WIDTH
        /\ p = DISPLAY_WIDTH * ((v[in.y] + r) % DISPLAY_HEIGHT) + DrawColumn(in.x, b)

Glyph0Pixels == {0, 1, 2, 3, 64, 67, 128, 131, 192, 195, 256, 257, 258, 259}

C13_DrawTwiceRestores ==
    [][(ExecutesOp({"Draw"}) /\ result' = "Running") =>
         LET in == Fetch(Cur)
             first == ExecDraw(Cur, in.x, in.y, in.n)
             again == ExecDraw([first EXCEPT !.v = v], in.x, in.y, in.n)
         IN /\ pixels' = first.pixels
            /\ again.pixels = pixels
            /\ (rom = "Font" /\ steps = 2) => (pixels' = Glyph0Pixels /\ v'[VF] = 0)
            /\ (rom = "Font" /\ steps = 3) => (pixels' = {} /\ v'[VF] = 1)]_vars

C13_Witness ==
    /\ rom = "Font" /\ steps = 4 /\ last_instr.op = "Draw" /\ result = "Running"
    /\ pixels = {} /\ v[VF] = 1

\* C14: with no quirk set (clipped mode) a DRW whose origin column
\* c = Vx mod 64 is greater than 56 modifies no pixel in columns
\* 0..(c + 7 - 64); with DRAW_WRAPS_PIXELS set the sprite bits past the right
\* edge are XORed into column (Vx + b) mod 64 instead.
C14_ClipsOrWraps ==
    [][(ExecutesOp({"Draw"}) /\ result' = "Running"
            /\ v[Fetch(Cur).x] % DISPLAY_WIDTH > 56) =>
         LET in == Fetch(Cur)
             c == v[in.x] % DISPLAY_WIDTH
             At(r, col) == DISPLAY_WIDTH * ((v[in.y] + r) % DISPLAY_HEIGHT) + col
         IN IF DRAW_WRAPS_PIXELS \in quirks
            THEN \A r \in 0..(in.n - 1), b \in 0..7 :
                    (c + b >= DISPLAY_WIDTH /\ SpriteBitSet(r, b)) =>
                        ((At(r, (v[in.x] + b) % DISPLAY_WIDTH) \in pixels')
                            # (At(r, (v[in.x] + b) % DISPLAY_WIDTH) \in pixels))
            ELSE \A row \in 0..(DISPLAY_HEIGHT - 1), col \in 0..(c + 7 - DISPLAY_WIDTH) :
                    (DISPLAY_WIDTH * row + col \in pixels')
                        <=> (DISPLAY_WIDTH * row + col \in pixels)]_vars

C14_Witness ==
    /\ rom = "DrawEdge" /\ DRAW_WRAPS_PIXELS \notin quirks
    /\ last_instr.op = "Draw" /\ steps = 4 /\ result = "Running"
    /\ pixels = {1982, 1983, 2046, 62, 126, 190, 191}

\* C15: FX55 copies V0..Vx to memory[I..I+x] and changes no register; FX65
\* copies memory[I..I+x] into V0..Vx and changes no memory byte and no
\* register above Vx; after either, I is the old I + x + 1 when
\* LOAD_STORE_IGNORES_I is off and the old I when it is on.
C15_SaveLoadRegs ==
    [][(ExecutesOp({"SaveRegs", "LoadRegs"}) /\ result' = "Running") =>
         LET in == Fetch(Cur) IN
         /\ i' = IF LOAD_STORE_IGNORES_I \in quirks THEN i ELSE i + in.x + 1
         /\ IF in.op = "SaveRegs"
            THEN /\ \A k \in 0..in.x : MemByte(memory', i + k) = v[k]
                 /\ v' = v
            ELSE /\ \A k \in 0..in.x : v'[k] = MemByte(memory, i + k)
                 /\ \A k \in (in.x + 1)..15 : v'[k] = v[k]
                 /\ memory' = memory]_vars

C15_Witness ==
    /\ rom = "SaveLoad" /\ LOAD_STORE_IGNORES_I \in quirks
    /\ last_instr.op = "LoadRegs" /\ steps = 6 /\ result = "Running"
    /\ i = 768 /\ v[0] = 17 /\ v[1] = 34
    /\ MemByte(memory, 768) = 17 /\ MemByte(memory, 769) = 34

-----------------------------------------------------------------------------
(* Stopping: the images of the two stop tests (an endless loop, a program    *)
(* blocked in FX0A) and one that starts the timers, with no quirk set.  The  *)
(* interpreter thread and the thread inside SystemController::stop are OS    *)
(* threads: each takes its next step when it can.  ExecuteNextInst is        *)
(* enabled exactly when cpu_at = "exec" and always leaves "exec", so its     *)
(* weak fairness is []<>(cpu_at # "exec").                                   *)

StopRoms == {"ClsJp", "WaitKey", "Timers"}

InitStop == Init /\ rom \in StopRoms /\ quirks = {}

SpecStop ==
    /\ InitStop /\ [][Next]_vars
    /\ WF_vars(LoopCheck)
    /\ []<>(cpu_at # "exec")
    /\ WF_vars(WaitKeyReturn)
    /\ WF_vars(ControllerStopSend)

\* the same runs with a host that calls SystemController::stop once more
InitStopTwice ==
    InitSysStops(MaxStops + 1) /\ RestIdle /\ rom \in StopRoms /\ quirks = {}

SpecStopTwice ==
    /\ InitStopTwice /\ [][Next]_vars
    /\ WF_vars(LoopCheck)
    /\ []<>(cpu_at # "exec")
    /\ WF_vars(WaitKeyReturn)
    /\ WF_vars(ControllerStopSend)

\* C16: once SystemController::stop has raised the stop pin, the loop begins
\* at most one more instruction (the one whose loop test had already passed)
\* and run then returns, with Ok(()) when it returns from the loop test; this
\* holds for a ROM that loops forever.
C16_StopEndsRun ==
    /\ [][stop => /\ stop'
                  /\ (cpu_at' = "exec" => cpu_at = "exec")
                  /\ (cpu_at = "check" /\ cpu_at' # "check")
                        => (cpu_at' = "done" /\ result' = "Ok")]_vars
    /\ (stop ~> cpu_at = "done")

C16_Witness ==
    /\ rom = "ClsJp" /\ stop /\ cpu_at = "done" /\ result = "Ok"
    /\ steps = 5 /\ pc = 514

\* C17: if the interpreter is blocked in FX0A when SystemController::stop is
\* called and no key is pressed, the blocked wait is released, run terminates
\* with the Interrupted error, and Vx is not modified.
C17_StopReleasesWait ==
    /\ [][(cpu_at = "wait" /\ cpu_at' # "wait" /\ wait_chan = <<>>) =>
             (cpu_at' = "done" /\ result' = "Interrupted" /\ v' = v /\ pc' = pc)]_vars
    /\ ((cpu_at = "wait" /\ stop) ~> cpu_at = "done")

C17_Witness ==
    /\ rom = "WaitKey" /\ stop /\ cpu_at = "done" /\ result = "Interrupted"
    /\ last_instr.op = "WaitKeyPress" /\ last_instr.x = 1 /\ v[1] = 0
    /\ key_states = [k \in Keys |-> Up] /\ wait_chan = <<>> /\ stop_waiter = 0

\* a wait_for_key_press call returns Some(k)
KbReturnsKey(k) == kb_at = "select" /\ kb_at' = "idle" /\ kb_ret' = k

\* the key of the first Down message handled since the call registered, or
\* else of the first one still in the input channel (-1 when there is none)
FirstDown ==
    IF kb_seen # <<>> THEN kb_seen[1].key
    ELSE LET downs == {j \in 1..Len(key_msgs) : key_msgs[j].state = Down} IN
         IF downs = {} THEN -1
         ELSE key_msgs[CHOOSE j \in downs : \A h \in downs : j <= h].key

\* C18: if a Down event for key k is posted after wait_for_key_press has
\* registered its wait and no interrupt is sent, the call eventually returns
\* Some(k), k being the first Down the worker handles for that call: the
\* wake-up is not lost whether the worker handles the event before or after
\* the caller reaches its select.
C18_WakeUpNotLost ==
    /\ [][\A k \in Keys : (KbReturnsKey(k) /\ kb_stops = 0) => FirstDown = k]_vars
    /\ \A k \in TestKeys :
          (kb_at = "select" /\ kb_stops = 0 /\ FirstDown = k)
              ~> (kb_stops > 0 \/ (kb_at = "idle" /\ kb_ret = k))

C18_Witness ==
    /\ kb_at = "idle" /\ kb_ret = 7 /\ kb_calls = 1 /\ kb_stops = 0
    /\ kb_seen = << [key |-> 7, was_up |-> TRUE] >>
    /\ waiting = FALSE /\ wait_chan = <<>>

\* C19: each wait_for_key_press call consumes at most one Down event, and a
\* call returns only a key whose Down was processed after that call
\* registered its wait: a Down processed while no call is waiting is never
\* returned by a later call.
C19_NoStaleKey ==
    [][\A k \in Keys :
          KbReturnsKey(k) => \E j \in 1..Len(kb_seen) : kb_seen[j].key = k]_vars

\* C20: wait_for_key_press returns Some(k) only if key k changed from Up to
\* Down while the wait was registered; a Down event for a key the state table
\* already records as Down does not release the wait.  (Stated for calls made
\* while no interrupt was ever sent.)
C20_OnlyUpToDown ==
    [][\A k \in Keys :
          (KbReturnsKey(k) /\ kb_stops = 0) =>
              \E j \in 1..Len(kb_seen) : kb_seen[j].key = k /\ kb_seen[j].was_up]_vars

\* C21: when wait_for_key_press returns Some(k) the key-state table already
\* records k as Down (the table is written before the wait is released), so
\* is_key_down(k) right after the return is true unless an Up event for k has
\* been processed in between.
C21_TableBeforeRelease ==
    [][/\ (Len(wait_chan') > Len(wait_chan)) => is_key_down(key_states', Head(wait_chan'))
       /\ \A k \in Keys :
             KbReturnsKey(k) => (is_key_down(key_states', k) \/ k \in kb_ups)]_vars

C21_Witness ==
    /\ kb_at = "idle" /\ kb_ret = 1 /\ kb_calls = 1
    /\ is_key_down(key_states, 1) /\ kb_ups = {}

\* C22: an is_key_down(k) call reflects every key event whose post (send on
\* the keyboard input) had already returned before the call began.
C22_PostedIsVisible ==
    \A k \in TestKeys : is_key_down(key_states, k) <=> (kb_last[k] = Down)

\* C23: all 16 keys start Up; once the worker has processed every event posted
\* so far, is_key_down(k) is true iff the last event posted for k was Down;
\* an event for key k never changes the recorded state of any other key.
C23_TableFollowsPosts ==
    /\ [](kb_posts = 0 => \A k \in Keys : ~is_key_down(key_states, k))
    /\ [](key_msgs = <<>> =>
             \A k \in Keys : is_key_down(key_states, k) <=> (kb_last[k] = Down))
    /\ [][\A k \in Keys :
             key_states'[k] # key_states[k] =>
                 (key_msgs # <<>> /\ Head(key_msgs).key = k)]_vars

C23_Witness ==
    /\ key_msgs = <<>> /\ kb_posts = 3
    /\ is_key_down(key_states, 1) /\ ~is_key_down(key_states, 7)
    /\ kb_last[1] = Down /\ kb_last[7] = Up /\ kb_at = "idle" /\ kb_calls = 0

\* C24: the ticker changes the value only by taking 1 off a positive value,
\* the value never exceeds what was written (no wrap to 255), and a nonzero
\* value is always followed by the value 0, whatever the interleaving of
\* update's store, unpark and try_send with the ticker's steps.
C24_CountsDownToZero ==
    /\ [][(t_value' # t_value /\ t_cl' = t_cl /\ t_upds' = t_upds)
            => (t_value > 0 /\ t_value' = t_value - 1)]_vars
    /\ [](t_value \in TimerValues)
    /\ (t_value > 0) ~> (t_value = 0)

C24_Witness ==
    /\ t_upds = 2 /\ t_zeros = 2 /\ t_from_zero /\ t_written = 3
    /\ t_value = 0 /\ t_cl = "idle" /\ t_spur = 0

\* C25: the store of update(0) leaves the value 0, puts nothing on the output
\* channel, does not unpark and returns; and a value of 0 changes only by the
\* store of a later nonzero update, also when the ticker had already read a
\* nonzero value for its decrement.
C25_ZeroCancels ==
    [][/\ (t_upds' # t_upds /\ t_written' = 0)
            => (t_value' = 0 /\ t_chan' = t_chan /\ t_started' = t_started
                /\ t_token' = t_token /\ t_cl' = "idle")
       /\ (t_value = 0 /\ t_value' # 0)
            => (t_upds' # t_upds /\ t_written' # 0)]_vars

C25_Witness ==
    /\ t_at = "cas" /\ t_loaded > 0
    /\ t_value = 0 /\ t_written = 0 /\ t_cl = "idle" /\ t_upds = 2

\* C26: a Started event is put on the output only by an update whose store
\* found the value 0, and a Stopped event only when the value has reached 0
\* once more than Stopped events were put there.
C26_EventsMatchTransitions ==
    [][/\ (t_started' # t_started) => t_from_zero
       /\ (t_stopped' # t_stopped) => (t_stopped < t_zeros)]_vars

\* C27: the Stopped events on the output never outnumber the transitions of
\* the value to 0, and a Started event is put there only after a store of a
\* nonzero value.
C27_EventsFollowTransitions ==
    /\ [](t_stopped <= t_zeros)
    /\ [][(t_started' # t_started) => (t_written # 0 /\ t_cl = "send")]_vars

\* C28: once drop has returned the ticker thread eventually exits, wherever
\* it was when drop began.
C28_DropEndsTicker == (t_cl = "dropped") ~> (t_at = "exited")

C28_Witness == t_at = "exited" /\ t_at_drop = "counting" /\ t_spur = 0

\* the key events on their way to the table, oldest first
KeyPath ==
    key_msgs \o [j \in 1..Len(p_msg) |-> into(p_msg[j])]
             \o [j \in 1..Len(p_front) |-> into(p_front[j])]

\* C29: every key event the front end produces joins the events on their way
\* to the key-state table, and an event leaves them only, oldest first, by
\* the worker writing it into the table: none is discarded, also when one of
\* the bounded channels is full.
C29_NoKeyEventLost ==
    [][(p_target = "alive" /\ p_target' = "alive") =>
         IF p_events' # p_events
         THEN KeyPath' = Append(KeyPath, into(p_last'[1]))
         ELSE \/ KeyPath' = KeyPath
              \/ /\ KeyPath # <<>>
                 /\ KeyPath' = Tail(KeyPath)
                 /\ key_states' = [key_states EXCEPT
                                      ![Head(KeyPath).key] = Head(KeyPath).state]]_vars

\* C30: once the keyboard's Receiver is gone the adapter thread eventually
\* exits, whatever the front end does; and while it is there the adapter
\* takes the oldest message of the front end's channel and appends its
\* conversion to the keyboard's channel.
C30_AdapterExits ==
    /\ (p_target = "gone") ~> (p_at = "exited")
    /\ [][/\ (p_at = "recv" /\ p_at' = "send")
              => (p_msg' = <<Head(p_front)>> /\ p_front' = Tail(p_front))
          /\ (Len(key_msgs') > Len(key_msgs))
              => (p_at = "send" /\ key_msgs' = Append(key_msgs, into(p_msg[1])))]_vars

\* the hexadecimal digit k of a word, digit 0 the lowest
Nib(w, k) == (w \div (16 ^ k)) % 16

\* the rows of the opcode table: the four digits of the pattern, highest
\* first and -1 for an operand digit, the instruction and its operand form
OpcodeTable ==
    { <<0, 0, 14, 0, "ClearDisplay", "none">>, <<0, 0, 14, 14, "Return", "none">>,
      <<1, -1, -1, -1, "Jump", "nnn">>, <<2, -1, -1, -1, "Call", "nnn">>,
      <<3, -1, -1, -1, "SkipEqImm", "xkk">>, <<4, -1, -1, -1, "SkipNotEqImm", "xkk">>,
      <<5, -1, -1, 0, "SkipEqReg", "xy">>, <<6, -1, -1, -1, "LoadImm", "xkk">>,
      <<7, -1, -1, -1, "AddImm", "xkk">>, <<8, -1, -1, 0, "LoadReg", "xy">>,
      <<8, -1, -1, 1, "OrReg", "xy">>, <<8, -1, -1, 2, "AndReg", "xy">>,
      <<8, -1, -1, 3, "XorReg", "xy">>, <<8, -1, -1, 4, "AddReg", "xy">>,
      <<8, -1, -1, 5, "SubReg", "xy">>, <<8, -1, -1, 6, "ShiftRight", "xy">>,
      <<8, -1, -1, 7, "SubN", "xy">>, <<8, -1, -1, 14, "ShiftLeft", "xy">>,
      <<9, -1, -1, 0, "SkipNotEqReg", "xy">>, <<10, -1, -1, -1, "LoadI", "nnn">>,
      <<11, -1, -1, -1, "JumpV0", "nnn">>, <<12, -1, -1, -1, "Random", "xkk">>,
      <<13, -1, -1, -1, "Draw", "xyn">>,
      <<14, -1, 9, 14, "SkipKeyPressed", "x">>, <<14, -1, 10, 1, "SkipKeyNotPressed", "x">>,
      <<15, -1, 0, 7, "LoadDelayTimer", "x">>, <<15, -1, 0, 10, "WaitKeyPress", "x">>,
      <<15, -1, 1, 5, "SetDelayTimer", "x">>, <<15, -1, 1, 8, "SetSoundTimer", "x">>,
      <<15, -1, 1, 14, "AddI", "x">>, <<15, -1, 2, 9, "LoadSprite", "x">>,
      <<15, -1, 3, 3, "LoadBCD", "x">>, <<15, -1, 5, 5, "SaveRegs", "x">>,
      <<15, -1, 6, 5, "LoadRegs", "x">> }

RowMatches(row, w) ==
    \A k \in 1..4 : row[k] = -1 \/ row[k] = Nib(w, 4 - k)

\* the instruction a row stands for on a word it matches
RowInstr(row, w) ==
    LET x == Nib(w, 2)
        y == Nib(w, 1)
        f == row[6]
    IN Instr(row[5],
             IF f \in {"xkk", "xy", "xyn", "x"} THEN x ELSE 0,
             IF f \in {"xy", "xyn"} THEN y ELSE 0,
             IF f = "xyn" THEN Nib(w, 0) ELSE 0,
             IF f = "xkk" THEN w % 256 ELSE 0,
             IF f = "nnn" THEN w % 4096 ELSE 0)

\* the words the claim lists as matching no row
UnlistedWord(w) ==
    \/ Nib(w, 3) = 0 /\ w \notin {\h00E0, \h00EE}
    \/ Nib(w, 3) \in {5, 9} /\ Nib(w, 0) # 0
    \/ Nib(w, 3) = 8 /\ Nib(w, 0) \in (8..13) \cup {15}
    \/ Nib(w, 3) = 14 /\ w % 256 \notin {\h9E, \hA1}
    \/ Nib(w, 3) = 15 /\ w % 256 \notin {\h07, \h0A, \h15, \h18, \h1E, \h29, \h33,
                                          \h55, \h65}

\* C31: for every 16-bit word parse_opcode returns the instruction of the one
\* row of the opcode table the word matches, with x, y, n, kk and nnn taken
\* from bits 11..8, 7..4, 3..0, 7..0 and 11..0, and None exactly for the
\* words that match no row, which are the listed ones.
C31_DecodeIsTheTable ==
    d_at = "decoded" =>
        LET rows == { row \in OpcodeTable : RowMatches(row, d_word) } IN
        /\ Cardinality(rows) <= 1
        /\ \A row \in rows : d_instr = RowInstr(row, d_word)
        /\ (rows = {}) <=> (d_instr = None)
        /\ (rows = {}) <=> UnlistedWord(d_word)

C31_Witness ==
    d_at = "decoded" /\ d_word = \h8ABE /\ d_instr = Instr("ShiftLeft", 10, 11, 0, 0, 0)

\* C32: the word the generator emits for an Opcode with in-range operands is
\* decoded by parse_opcode to the instruction of the same name with the same
\* operands, and every word parse_opcode accepts is emitted again by the
\* generator from the Opcode named like its instruction.
C32_EncodeDecodeRoundTrip ==
    /\ d_at = "redecoded" => d_instr = InstrOf(d_op)
    /\ d_at = "reencoded" => d_code = d_word

C32_Witness ==
    /\ d_at = "redecoded" /\ d_op = Opcode("Draw", 4, 8, 3, 0, NoAddr)
    /\ d_code = \hD483 /\ d_instr = Instr("Draw", 4, 8, 3, 0, 0)

\* the bytes of the lines before line k: 2 per opcode, len(data) per data line
RECURSIVE BytesBefore(_, _)
BytesBefore(ll, k) ==
    IF k <= 1 THEN 0
    ELSE BytesBefore(ll, k - 1)
         + (CASE ll[k - 1].instr.kind = "Opcode" -> 2
              [] ll[k - 1].instr.kind = "Data" -> Len(ll[k - 1].instr.data)
              [] OTHER -> 0)

DefLines(ll, L) == { k \in 1..Len(ll) : ll[k].label = L }

LabelRefLines(ll) ==
    { k \in 1..Len(ll) : /\ ll[k].instr.kind = "Opcode"
                            /\ ll[k].instr.op.a.kind = "LabelRef" }

HasDuplicate(ll) ==
    \E j, k \in 1..Len(ll) : j # k /\ ll[j].label # "" /\ ll[j].label = ll[k].label

HasUnknown(ll) ==
    \E k \in LabelRefLines(ll) : DefLines(ll, ll[k].instr.op.a.label) = {}

AddrBase(op) ==
    CASE op = "Jump" -> \h1000 [] op = "Call" -> \h2000
      [] op = "LoadI" -> \hA000 [] op = "JumpV0" -> \hB000

\* C33: for a line list without duplicate labels, generate succeeds when every
\* referenced label is defined, and then each JP, CALL, LD I or JP V0 with a
\* label operand is emitted, at its own offset of the output, as its opcode
\* with the low 12 bits of 0x200 + the bytes of the lines before the label's
\* defining line, for a label defined before or after the reference.
C33_LabelIsAddressOfDefinition ==
    ~HasDuplicate(g_lines) =>
        /\ g_at = "failed" => HasUnknown(g_lines)
        /\ g_at = "done" =>
               \A k \in LabelRefLines(g_lines) :
                   LET o == g_lines[k].instr.op
                       at == BytesBefore(g_lines, k)
                   IN  \E d \in DefLines(g_lines, o.a.label) :
                           LET w == AddrBase(o.op) + ((512 + BytesBefore(g_lines, d)) % 4096)
                           IN  /\ Len(g_out) >= at + 2
                               /\ g_out[at + 1] = w \div 256
                               /\ g_out[at + 2] = w % 256

C33_Witness ==
    /\ g_at = "done"
    /\ g_lines = << Line("start", AsmOpcode(Opcode("LoadImm", 0, 0, 0, 42, NoAddr))),
                    Line("", AsmOpcode(Opcode("Jump", 0, 0, 0, 0, LabelRef("start")))) >>
    /\ g_out = << \h60, \h2A, \h12, \h00 >>

\* C34: generate ends with an error whenever a label is defined on two lines
\* or an opcode references a label no line defines, and with a label defined
\* twice it never writes a byte.
C34_LabelErrors ==
    /\ (g_at \in {"done", "failed"} /\ (HasDuplicate(g_lines) \/ HasUnknown(g_lines)))
           => (g_at = "failed" /\ g_err \in {"duplicate label", "unknown label"})
    /\ HasDuplicate(g_lines) => (g_out = <<>> /\ g_err # "unknown label")

C34_Witness ==
    /\ g_at = "failed" /\ g_err = "duplicate label" /\ g_out = <<>>
    /\ g_lines = << Line("start", AsmOpcode(Opcode("LoadImm", 0, 0, 0, 42, NoAddr))),
                    Line("start", AsmOpcode(Opcode("Call", 0, 0, 0, 0, LabelRef("end")))) >>

\* a line made of one space, JP V0 and a comma in either letter case, and an
\* address literal
JpV0Texts == { <<" ">> \o f \o o : f \in JpV0Forms, o \in AddrLiterals }

\* C35: the line ' JP V0, addr' is accepted by the parser as the single
\* JumpV0 opcode with that address, and assembles to the two bytes of
\* 0xB000 | addr.
C35_JpV0IsJumpV0 ==
    a_text \in JpV0Texts =>
        /\ a_at # "failed"
        /\ a_at = "parsed" =>
               /\ Len(g_lines) = 1
               /\ g_lines[1].instr.kind = "Opcode"
               /\ g_lines[1].instr.op.op = "JumpV0"
               /\ g_lines[1].instr.op.a = Imm(768) \/ g_lines[1].instr.op.a = Imm(3)
        /\ g_at = "done" => g_out \in { << \hB3, \h00 >>, << \hB0, \h03 >> }

\* whether the skip condition of a skip instruction holds in the current state
SkipHolds(in) ==
    CASE in.op = "SkipEqImm" -> v[in.x] = in.kk
      [] in.op = "SkipNotEqImm" -> v[in.x] # in.kk
      [] in.op = "SkipEqReg" -> v[in.x] = v[in.y]
      [] in.op = "SkipNotEqReg" -> v[in.x] # v[in.y]
      [] in.op = "SkipKeyPressed" -> KeyNumberedDown(v[in.x])
      [] in.op = "SkipKeyNotPressed" -> ~KeyNumberedDown(v[in.x])
      [] OTHER -> FALSE

\* C36: after a successful JP, CALL, RET or JP V0 the pc is the value the
\* instruction assigned (NNN, NNN, the popped stack entry, NNN + V0) with no
\* further advance, and CALL pushes the old pc + 2; after any other successful
\* instruction the pc is the old pc + 2, or the old pc + 4 when a skip
\* condition held.
C36_PcAfterInstruction ==
    [][(Executes /\ cpu_at' # "wait" /\ result' = "Running") =>
          LET in == Fetch(Cur) IN
          CASE in.op = "Jump" -> pc' = in.nnn
            [] in.op = "Call" ->
                 /\ pc' = in.nnn
                 /\ stack' = Append(stack, pc + 2)
            [] in.op = "Return" ->
                 /\ pc' = stack[Len(stack)]
                 /\ stack' = SubSeq(stack, 1, Len(stack) - 1)
            [] in.op = "JumpV0" -> pc' = (in.nnn + v[0]) % U16
            [] OTHER -> pc' = pc + (IF SkipHolds(in) THEN 4 ELSE 2)]_vars

\* C37: whenever no update is in progress and every emitted event has been
\* received, the last event received is Started if the value is above zero,
\* and is not Started (it is Stopped, or no event was ever emitted) if the
\* value is zero and the ticker is parked with no wake-up pending.
C37_ConsumerAgreesWithTimer ==
    (t_chan = <<>> /\ t_cl = "idle") =>
        /\ t_value > 0 => t_last = "Started"
        /\ (t_value = 0 /\ t_at = "park" /\ ~t_token) => t_last # "Started"

\* C40: from the store of an update on, the value is the stored value minus
\* the number of decrements the ticker has applied since that store, and so
\* at most the stored value, whatever the ticker had loaded before the store.
C40_DecrementNeverOverwrites ==
    /\ t_value = t_stored - t_decs
    /\ t_value <= t_stored

\* a store landed between the load and the compare-exchange of fetch_update
C40_Witness ==
    /\ t_at = "cas" /\ t_loaded = 3 /\ t_stored = 1 /\ t_value = 1 /\ t_decs = 0
    /\ t_upds = 2

\* C38: every call of SystemController::stop returns, whatever the
\* interpreter is doing and however many calls were made before.
C38_StopReturns == (host_at = "send") ~> (host_at = "idle")

\* C39: the interpreter thread and the keyboard worker never deadlock.  In
\* every interleaving of key events with is_key_down and wait_for_key_press
\* calls, the worker that has received an event finishes processing it and
\* is back at its select!, every is_key_down call returns, and the
\* interpreter gets past the latch of wait_for_key_press: the one place
\* where it can stay is the select! of wait_for_key_press.
C39_NoDeadlock ==
    /\ (lk_wk # "select") ~> (lk_wk = "select")
    /\ (lk_in \in {"read", "reading"}) ~> (lk_in = "idle")
    /\ (lk_in \in {"latch", "set"}) ~> (lk_in = "select")

\* the worker, holding the write lock, waits for the latch the interpreter
\* holds inside wait_for_key_press
C39_Witness ==
    /\ lk_wk = "lock"
    /\ lk_rw = "write"
    /\ lk_mx = "interp"
    /\ lk_in = "set"

====
